---- MODULE Spec2Model ----
(***************************************************************************)
(* Model of the Todoist project widget's synchronisation engine:           *)
(*   TaskStore  (src/widgets/project/api.js, class TaskStore)              *)
(*   TaskTree   (src/widgets/project/api.js, class TaskTree)               *)
(*   EventQueue (src/unnamed/part_000, class EventQueue)                   *)
(*   ProjectWidgetScript.processEvent (src/unnamed/part_000)               *)
(*   ProjectWidgetScript.handleRemove, showError (src/unnamed/part_000)    *)
(*   App.registerWebhookData (src/unnamed/part_001)                        *)
(*   TodoistClient.getProjects (src/lib/TodoistClient.js)                  *)
(***************************************************************************)
EXTENDS Integers, Sequences, FiniteSets, TLC

VARIABLES
  project,      \* TaskStore.project
  sections,     \* TaskStore.sections : Map in insertion order, as a sequence
  tasks,        \* TaskStore.tasks    : Map in insertion order, as a sequence
  view,         \* TaskView: the rendered DOM and the view's pending-add ids
  renderTimer,  \* TaskTree.renderTimer: "none", or which timeout is armed
  pendingSnapshot,        \* TaskTree.pendingSnapshot
  afterRenderCallbacks,   \* TaskTree.afterRenderCallbacks
  pendingTaskAddIds,      \* TaskTree.pendingTaskAddIds
  pendingSectionAddIds,   \* TaskTree.pendingSectionAddIds
  animationsInProgress,   \* TaskTree.animationsInProgress
  isRendering,            \* TaskTree.isRendering
  removals,     \* the done callbacks handed to onTaskRemove / onSectionRemove
                \* and not yet called
  pendingEvents,        \* EventQueue.pendingEvents: Map in insertion order
  pendingEventTimers,   \* EventQueue.pendingEventTimers: the entity ids with an
                        \* armed timeout, in the order the timeouts were armed
  eventQueue,       \* ProjectWidgetScript.eventQueue
  processingQueue,  \* ProjectWidgetScript.processingQueue
  projectTitle,     \* domElements.projectTitle.textContent
  arrived,      \* history: the messages the transport listener received
  passed,       \* history: the messages handed to EventQueue.process
  removing,     \* the handleRemove invocations of the widget
  errorUi,      \* the error overlay of the widget: errorHideTimer, the armed
                \* auto-hide timeouts, the fetches of synchronize() in flight
  app,          \* App: ids and webhook, with the webhooks being created and
                \* those registered at the cloud
  client,       \* TodoistClient: _projects and _timeout
  errors,       \* history: the number of calls of EventQueue.onError
  handled,      \* history: the events the latest EventQueue call passed to the
                \* handler, in order, each with whether the handler threw
  delivered,    \* history: the events the transport has delivered
  expiries,     \* history: the timer expiries and clear() calls, each with the
                \* events delivered before it and the buffer it found
  entered,      \* history: the calls of the add hooks (onTaskAdd, onSectionAdd)
  notified,     \* history: the number of onTreeChange calls, and what the tree
                \* was like at the latest one
  version,      \* history: the number of TaskTree calls that returned normally
  renders,      \* history: the number of TaskView.render calls
  last          \* history: the operation the last step performed

storeVars == <<project, sections, tasks>>
treeVars == <<view, renderTimer, pendingSnapshot, afterRenderCallbacks,
              pendingTaskAddIds, pendingSectionAddIds, animationsInProgress,
              isRendering, removals, entered, notified, version, renders>>
pageVars == <<removing, errorUi, app, client>>
widgetVars == <<eventQueue, processingQueue, projectTitle, arrived, passed, pageVars>>
queueVars == <<pendingEvents, pendingEventTimers, errors, handled, delivered, expiries,
               widgetVars>>
vars == <<project, sections, tasks, view, renderTimer, pendingSnapshot,
          afterRenderCallbacks, pendingTaskAddIds, pendingSectionAddIds,
          animationsInProgress, isRendering, removals, pendingEvents,
          pendingEventTimers, errors, handled, delivered, expiries, entered, notified,
          eventQueue, processingQueue, projectTitle, arrived, passed,
          removing, errorUi, app, client, version, renders, last>>

(***************************************************************************)
(* Values                                                                  *)
(***************************************************************************)
\* JavaScript null / undefined.
Null == "<null>"
\* null where the value, when present, is an object.
NullObject == [null |-> TRUE]
\* Number.NaN, the result of Date.parse on an unparseable string: a number
\* that is no instant of the model.
NaN == -1

\* `x ? ... : ...` on a string-or-null value: null and "" are falsy.
Truthy(x) == x # Null /\ x # ""

\* Date.parse: an ISO string to milliseconds.  "t2z" is a second spelling of
\* the instant "t2"; any other string does not parse.
DateParse(s) ==
  CASE s = "t1" -> 1000
    [] s = "t2" -> 2000
    [] s = "t2z" -> 2000
    [] s = "t3" -> 3000
    [] OTHER -> NaN

\* String.prototype.localeCompare on the ids of the model: negative, zero or
\* positive.  Ids are compared by their position in the collation order.
IdRank(id) ==
  CASE id = "a" -> 1
    [] id = "b" -> 2
    [] id = "c" -> 3
    [] id = "s1" -> 4
    [] id = "s2" -> 5
    [] OTHER -> 9
LocaleCompare(x, y) == IdRank(x) - IdRank(y)

(***************************************************************************)
(* Map<string, record> with insertion order, as a sequence of records      *)
(***************************************************************************)
Range(s) == {s[i] : i \in 1..Len(s)}
Ids(m) == {m[i].id : i \in 1..Len(m)}
MapHas(m, id) == id \in Ids(m)
MapGet(m, id) == LET i == CHOOSE i \in 1..Len(m) : m[i].id = id IN m[i]
\* Map.set: an existing key keeps its position, a new key goes last.
MapSet(m, rec) ==
  IF MapHas(m, rec.id)
  THEN [i \in 1..Len(m) |-> IF m[i].id = rec.id THEN rec ELSE m[i]]
  ELSE Append(m, rec)
MapDelete(m, id) == SelectSeq(m, LAMBDA r : r.id # id)
RECURSIVE MapSetAll(_, _)
MapSetAll(m, recs) ==
  IF recs = <<>> THEN m ELSE MapSetAll(MapSet(m, Head(recs)), Tail(recs))

(***************************************************************************)
(* TaskStore                                                               *)
(***************************************************************************)
\* The store as one value.
Store(p, s, t) == [project |-> p, sections |-> s, tasks |-> t]
EmptyStore == Store(NullObject, <<>>, <<>>)

SectionRecord(s) ==
  [id |-> s.id, name |-> s.name, section_order |-> s.section_order,
   updated_at |-> s.updated_at]

IsStale_Inclusive(incoming, current) ==
  LET incomingTime == DateParse(incoming)
      currentTime == DateParse(current)
  IN IF incomingTime = NaN \/ currentTime = NaN THEN FALSE
     ELSE incomingTime <= currentTime

\* TaskStore.isStale
IsStale(incoming, current) ==
  LET incomingTime == DateParse(incoming)
      currentTime == DateParse(current)
  IN IF incomingTime = NaN \/ currentTime = NaN THEN FALSE
     ELSE incomingTime < currentTime

\* `data.sections ?? []`, `data.tasks ?? []`: a list the payload omits is the
\* empty list.
ListOf(data, field) == IF field \in DOMAIN data THEN data[field] ELSE <<>>

StoreOrganize_Merges(st, data) ==
  Store(data.project,
        MapSetAll(st.sections, [i \in 1..Len(ListOf(data, "sections")) |->
                                  SectionRecord(ListOf(data, "sections")[i])]),
        MapSetAll(st.tasks, ListOf(data, "tasks")))

\* TaskStore.organize; data = [project, sections, tasks], either list possibly
\* omitted.
StoreOrganize(st, data) ==
  Store(data.project,
        MapSetAll(<<>>, [i \in 1..Len(ListOf(data, "sections")) |->
                           SectionRecord(ListOf(data, "sections")[i])]),
        MapSetAll(<<>>, ListOf(data, "tasks")))

\* Results of the operations that can throw: the store after the call, whether
\* it threw, and whether a stale update was skipped.
Ok(st) == [st |-> st, threw |-> FALSE, skipped |-> FALSE]
Threw(st) == [st |-> st, threw |-> TRUE, skipped |-> FALSE]
Skipped(st) == [st |-> st, threw |-> FALSE, skipped |-> TRUE]

\* TaskStore.updateTask
StoreUpdateTask(st, updatedTask) ==
  IF ~MapHas(st.tasks, updatedTask.id) THEN Threw(st)
  ELSE IF IsStale(updatedTask.updated_at, MapGet(st.tasks, updatedTask.id).updated_at)
       THEN Skipped(st)
       ELSE Ok([st EXCEPT !.tasks = MapSet(st.tasks, updatedTask)])

\* TaskStore.addTask
StoreAddTask(st, task) ==
  IF MapHas(st.tasks, task.id) THEN Threw(st)
  ELSE Ok([st EXCEPT !.tasks = MapSet(st.tasks, task)])

StoreAddSection_SkipsStale(st, section) ==
  IF MapHas(st.sections, section.id)
       /\ IsStale(section.updated_at, MapGet(st.sections, section.id).updated_at)
  THEN st
  ELSE [st EXCEPT !.sections = MapSet(st.sections, SectionRecord(section))]

\* TaskStore.addSection
StoreAddSection(st, section) ==
  [st EXCEPT !.sections = MapSet(st.sections, SectionRecord(section))]

\* TaskStore.updateSection
StoreUpdateSection(st, section) ==
  IF ~MapHas(st.sections, section.id) THEN Threw(st)
  ELSE IF IsStale(section.updated_at, MapGet(st.sections, section.id).updated_at)
       THEN Skipped(st)
       ELSE Ok([st EXCEPT !.sections = MapSet(st.sections, SectionRecord(section))])

\* The while loop of TaskStore.removeTask: queue is the work list, ts the live
\* id -> task map.
RECURSIVE RemoveLoop(_, _)
RemoveLoop(queue, ts) ==
  IF queue = <<>> THEN ts
  ELSE LET current == Head(queue)
           ts1 == MapDelete(ts, current)
           kids == SelectSeq(ts1, LAMBDA t : t.parent_id = current)
       IN RemoveLoop(Tail(queue) \o [i \in 1..Len(kids) |-> kids[i].id], ts1)

RemoveTaskIds_ChildrenOnly(ts, taskId) ==
  IF ~MapHas(ts, taskId) THEN ts
  ELSE SelectSeq(ts, LAMBDA t : t.id # taskId /\ t.parent_id # taskId)

\* TaskStore.removeTask, on the task map.
RemoveTaskIds(ts, taskId) ==
  IF ~MapHas(ts, taskId) THEN ts ELSE RemoveLoop(<<taskId>>, ts)

\* TaskStore.removeTask
StoreRemoveTask(st, taskId) == [st EXCEPT !.tasks = RemoveTaskIds(st.tasks, taskId)]

RECURSIVE RemoveEach(_, _)
RemoveEach(ts, ids) ==
  IF ids = <<>> THEN ts ELSE RemoveEach(RemoveTaskIds(ts, Head(ids)), Tail(ids))

\* TaskStore.removeSection
StoreRemoveSection(st, sectionId) ==
  IF ~MapHas(st.sections, sectionId) THEN st
  ELSE LET roots == SelectSeq(st.tasks, LAMBDA t : t.section_id = sectionId)
       IN [st EXCEPT !.tasks = RemoveEach(st.tasks, [i \in 1..Len(roots) |-> roots[i].id]),
                     !.sections = MapDelete(st.sections, sectionId)]

(***************************************************************************)
(* TaskStore.snapshot                                                      *)
(***************************************************************************)
SortByOrder_NoTieBreak(a, b) == a.child_order - b.child_order

\* sortByOrder, the comparator of the sibling lists.
SortByOrder(a, b) ==
  IF a.child_order = b.child_order THEN LocaleCompare(a.id, b.id)
  ELSE a.child_order - b.child_order

\* The comparator of the section list.
SortBySectionOrder(a, b) == a.section_order - b.section_order

SortByTimestamp_KeepsOrder(a, b) == 0

\* The comparator of EventQueue.processPending; a NaN difference orders
\* nothing.
SortByTimestamp(a, b) ==
  IF a.timestamp = NaN \/ b.timestamp = NaN THEN 0 ELSE a.timestamp - b.timestamp

Compare(kind, a, b) ==
  CASE kind = "task" -> SortByOrder(a, b)
    [] kind = "section" -> SortBySectionOrder(a, b)
    [] OTHER -> SortByTimestamp(a, b)

\* Array.prototype.sort, which is stable: x goes after every element that
\* does not compare greater than it.
RECURSIVE InsertInOrder(_, _, _)
InsertInOrder(kind, sorted, x) ==
  IF sorted = <<>> THEN <<x>>
  ELSE IF Compare(kind, Head(sorted), x) <= 0
       THEN <<Head(sorted)>> \o InsertInOrder(kind, Tail(sorted), x)
       ELSE <<x>> \o sorted
RECURSIVE ArraySort(_, _)
ArraySort(kind, s) ==
  IF s = <<>> THEN <<>>
  ELSE InsertInOrder(kind, ArraySort(kind, SubSeq(s, 1, Len(s) - 1)), s[Len(s)])

\* The parent a node is linked to: nodes.get(parent_id) when parent_id is
\* truthy and in the map.
HasParentNode(ts, t) == Truthy(t.parent_id) /\ MapHas(ts, t.parent_id)

\* A variant of BuildNode whose assignDepth hands its own depth on to the
\* children.
RECURSIVE BuildNode_SameDepth(_, _, _)
BuildNode_SameDepth(ts, t, depth) ==
  LET kids == SelectSeq(ts, LAMBDA k : HasParentNode(ts, k) /\ k.parent_id = t.id)
  IN [id |-> t.id, parent_id |-> t.parent_id, section_id |-> t.section_id,
      child_order |-> t.child_order, content |-> t.content,
      updated_at |-> t.updated_at,
      children |-> ArraySort("task", [i \in 1..Len(kids) |-> BuildNode_SameDepth(ts, kids[i], depth)]),
      depth |-> depth]

\* A TaskNode with its subtree: children in map order, then sorted; depth
\* assigned top-down.
RECURSIVE BuildNode(_, _, _)
BuildNode(ts, t, depth) ==
  LET kids == SelectSeq(ts, LAMBDA k : HasParentNode(ts, k) /\ k.parent_id = t.id)
  IN [id |-> t.id, parent_id |-> t.parent_id, section_id |-> t.section_id,
      child_order |-> t.child_order, content |-> t.content,
      updated_at |-> t.updated_at,
      children |-> ArraySort("task", [i \in 1..Len(kids) |-> BuildNode(ts, kids[i], depth + 1)]),
      depth |-> depth]

\* TaskStore.snapshot
Snapshot(st) ==
  LET rootTasks == SelectSeq(st.tasks, LAMBDA t : ~HasParentNode(st.tasks, t))
      roots == [i \in 1..Len(rootTasks) |-> BuildNode(st.tasks, rootTasks[i], 0)]
      sectionTasks(sid) ==
        SelectSeq(roots, LAMBDA r : Truthy(r.section_id) /\ MapHas(st.sections, r.section_id)
                                     /\ r.section_id = sid)
      unsectioned == ArraySort("task", SelectSeq(roots, LAMBDA r : ~Truthy(r.section_id)))
      ordered == ArraySort("section", st.sections)
  IN [project |-> st.project,
      sections |-> [i \in 1..Len(ordered) |->
                      [id |-> ordered[i].id, name |-> ordered[i].name,
                       section_order |-> ordered[i].section_order,
                       updated_at |-> ordered[i].updated_at,
                       tasks |-> ArraySort("task", sectionTasks(ordered[i].id))]],
      unsectioned |-> unsectioned]

SnapshotCall_SortsStore(st) ==
  [snapshot |-> Snapshot(st), st |-> [st EXCEPT !.tasks = ArraySort("task", @)]]

\* One call of snapshot(): what it returns and the store it leaves.  The
\* method builds its nodes as copies ({ ...task }) and sorts copies
\* (Array.from), and assigns no field of the store.
SnapshotCall(st) == [snapshot |-> Snapshot(st), st |-> st]

(***************************************************************************)
(* Inputs of the store specification                                       *)
(***************************************************************************)
Task(id, parent, section, order, content, stamp) ==
  [id |-> id, parent_id |-> parent, section_id |-> section, child_order |-> order,
   content |-> content, updated_at |-> stamp]
Section(id, name, order, stamp) ==
  [id |-> id, name |-> name, section_order |-> order, updated_at |-> stamp]

TaskIds == {"a", "b", "c"}
SectionIds == {"s1"}

\* Task payloads.  "a" is a root in three versions (the third a second
\* spelling of the instant t2, filed under section s1); "b" is a child of "a"
\* or a root; "c" is a child of "b" (a grandchild of "a"), a child of "a" or
\* a root.  The parent graph is acyclic (spec section 3).
StoreTaskPool ==
  {Task("a", Null, Null, 3, "x", "t1"),
   Task("a", Null, Null, 1, "y", "t2"),
   Task("a", Null, "s1", 1, "z", "t2z"),
   Task("b", "a", Null, 1, "x", "t1"),
   Task("b", Null, Null, 1, "x", "t1"),
   Task("b", Null, "s1", 2, "x", "t1"),
   Task("c", "b", Null, 1, "x", "t1"),
   Task("c", "a", "s1", 1, "x", "t1"),
   Task("c", Null, Null, 2, "x", "t1"),
   Task("c", Null, "s1", 2, "x", "t1")}

StoreSectionPool ==
  {Section("s1", "S1", 0, "t1"), Section("s1", "S1b", 0, "t2"),
   Section("s1", "S1c", 0, "t2z")}

\* Bulk payloads; the first omits both lists.
StorePayloads ==
  {[project |-> [name |-> "P"]],
   [project |-> [name |-> "P"], sections |-> <<Section("s1", "S1", 0, "t1")>>,
    tasks |-> <<Task("a", Null, "s1", 1, "x", "t1")>>],
   [project |-> [name |-> "P"], sections |-> <<>>,
    tasks |-> <<Task("c", "b", Null, 1, "x", "t1"), Task("b", "a", Null, 1, "x", "t1"),
                Task("a", Null, Null, 1, "x", "t1")>>]}

(***************************************************************************)
(* The store specification: the TaskStore driven through its public        *)
(* methods.                                                                *)
(***************************************************************************)
StoreNow == Store(project, sections, tasks)

SetStore(st) ==
  /\ project' = st.project
  /\ sections' = st.sections
  /\ tasks' = st.tasks

Outcome(r) == IF r.threw THEN "threw" ELSE IF r.skipped THEN "skipped" ELSE "ok"
Last(op, id, outcome, removed) ==
  [op |-> op, id |-> id, outcome |-> outcome, removed |-> removed]

\* The fields of a new TaskTree and its TaskView.
TreeFieldsInit ==
  /\ view = [dom |-> NullObject, pendingTaskAddIds |-> {}, pendingSectionAddIds |-> {}]
  /\ renderTimer = "none"
  /\ pendingSnapshot = NullObject
  /\ afterRenderCallbacks = <<>>
  /\ pendingTaskAddIds = {}
  /\ pendingSectionAddIds = {}
  /\ animationsInProgress = 0
  /\ isRendering = FALSE
  /\ removals = <<>>
  /\ entered = <<>>
  /\ notified = [count |-> 0, renders |-> 0, entered |-> 0, isRendering |-> FALSE]
  /\ version = 0
  /\ renders = 0

\* The fields of a new EventQueue.
\* The invocations of the widget's removal hook a behaviour makes.
Invocations == {"r1", "r2"}

\* The page before any removal hook has been invoked.
\* The overlay after onHomeyReady: no error shown, no auto-hide timeout
\* (errorHideTimer is 0 for null, the handles of the browser being positive),
\* no fetch in flight; reported counts the onError calls, served is the count the
\* latest synchronize() of an auto-hide found, loaded the count the latest
\* bulk load answers.
ErrorUiInit ==
  [errorHideTimer |-> 0, timeouts |-> {}, hidden |-> TRUE, fetches |-> <<>>,
   armed |-> 0, reported |-> 0, served |-> 0, loaded |-> 0]

\* App after onOAuth2Init (this.ids = new Set(); this.webhook = null): no
\* createWebhook call in flight, no webhook registered at the cloud, no
\* message delivered.
AppInit ==
  [ids |-> {}, webhook |-> NullObject, creating |-> <<>>, webhooks |-> <<>>,
   unregistered |-> 0, forwarded |-> 0]

\* TodoistClient after construction: no cached promise, no timeout; requests
\* counts the requests issued, calls the getProjects calls, joined the calls
\* answered by the cached promise.
ClientInit ==
  [_projects |-> "null", _timeout |-> FALSE, requests |-> 0, calls |-> 0, joined |-> 0]

PageFieldsInit ==
  /\ removing = [r \in Invocations |-> NullObject]
  /\ errorUi = ErrorUiInit
  /\ app = AppInit
  /\ client = ClientInit

QueueFieldsInit ==
  /\ PageFieldsInit
  /\ pendingEvents = <<>>
  /\ pendingEventTimers = <<>>
  /\ errors = 0
  /\ handled = <<>>
  /\ delivered = {}
  /\ expiries = {}
  /\ eventQueue = <<>>
  /\ processingQueue = FALSE
  /\ projectTitle = ""
  /\ arrived = <<>>
  /\ passed = <<>>

StoreInit ==
  /\ project = NullObject
  /\ sections = <<>>
  /\ tasks = <<>>
  /\ TreeFieldsInit
  /\ QueueFieldsInit
  /\ last = Last("new", Null, "ok", 0)

TaskStore_organize(data) ==
  /\ SetStore(StoreOrganize(StoreNow, data))
  /\ last' = Last("organize", Null, "ok", 0)
  /\ UNCHANGED <<treeVars, queueVars>>

TaskStore_updateTask(t) ==
  LET r == StoreUpdateTask(StoreNow, t)
  IN /\ SetStore(r.st)
     /\ last' = Last("updateTask", t.id, Outcome(r), 0)
     /\ UNCHANGED <<treeVars, queueVars>>

TaskStore_addTask(t) ==
  LET r == StoreAddTask(StoreNow, t)
  IN /\ SetStore(r.st)
     /\ last' = Last("addTask", t.id, Outcome(r), 0)
     /\ UNCHANGED <<treeVars, queueVars>>

TaskStore_addSection(s) ==
  /\ SetStore(StoreAddSection(StoreNow, s))
  /\ last' = Last("addSection", s.id, "ok", 0)
  /\ UNCHANGED <<treeVars, queueVars>>

TaskStore_updateSection(s) ==
  LET r == StoreUpdateSection(StoreNow, s)
  IN /\ SetStore(r.st)
     /\ last' = Last("updateSection", s.id, Outcome(r), 0)
     /\ UNCHANGED <<treeVars, queueVars>>

TaskStore_removeTask(id) ==
  LET st == StoreRemoveTask(StoreNow, id)
  IN /\ SetStore(st)
     /\ last' = Last("removeTask", id, "ok", Len(tasks) - Len(st.tasks))
     /\ UNCHANGED <<treeVars, queueVars>>

TaskStore_removeSection(id) ==
  LET st == StoreRemoveSection(StoreNow, id)
  IN /\ SetStore(st)
     /\ last' = Last("removeSection", id, "ok", Len(tasks) - Len(st.tasks))
     /\ UNCHANGED <<treeVars, queueVars>>

StoreNext ==
  \/ \E data \in StorePayloads : TaskStore_organize(data)
  \/ \E t \in StoreTaskPool : TaskStore_updateTask(t)
  \/ \E t \in StoreTaskPool : TaskStore_addTask(t)
  \/ \E s \in StoreSectionPool : TaskStore_addSection(s)
  \/ \E s \in StoreSectionPool : TaskStore_updateSection(s)
  \/ \E id \in TaskIds : TaskStore_removeTask(id)
  \/ \E id \in SectionIds : TaskStore_removeSection(id)

SpecStore == StoreInit /\ [][StoreNext]_vars

(***************************************************************************)
(* Properties of the store                                                 *)
(***************************************************************************)
\* Whether the parent_id chain of task id leads to task P, following at most
\* fuel links of the map ts.
RECURSIVE ChainLeadsTo(_, _, _, _)
ChainLeadsTo(ts, id, P, fuel) ==
  /\ fuel > 0
  /\ MapHas(ts, id)
  /\ LET parent == MapGet(ts, id).parent_id
     IN parent = P \/ ChainLeadsTo(ts, parent, P, fuel - 1)
Descendants(ts, P) == {id \in Ids(ts) : ChainLeadsTo(ts, id, P, Len(ts))}

\* The ids of the tasks of a list of TaskNodes, children included.
RECURSIVE NodeIds(_)
NodeIds(list) ==
  UNION {{list[i].id} \cup NodeIds(list[i].children) : i \in 1..Len(list)}
SnapshotIds(snap) ==
  NodeIds(snap.unsectioned)
    \cup UNION {NodeIds(snap.sections[i].tasks) : i \in 1..Len(snap.sections)}

\* C1: for every task id P present in a reachable store, after removeTask(P)
\* neither the store nor its snapshot contains P or any task whose parent_id
\* chain led to P.
C1_RemoveTaskCascades ==
  \A P \in Ids(tasks) :
    LET after == StoreRemoveTask(StoreNow, P)
        gone == {P} \cup Descendants(tasks, P)
    IN /\ Ids(after.tasks) \cap gone = {}
       /\ SnapshotIds(Snapshot(after)) \cap gone = {}

\* A removeTask that took a root, its child and its grandchild with it.
C1_Witness == last.op = "removeTask" /\ last.removed = 3 /\ tasks = <<>>

\* Chronological order of two updated_at strings, both of which parse.
StrictlyEarlier(x, y) ==
  DateParse(x) # NaN /\ DateParse(y) # NaN /\ DateParse(x) < DateParse(y)
NotEarlier(x, y) ==
  DateParse(x) # NaN /\ DateParse(y) # NaN /\ DateParse(x) >= DateParse(y)

\* C2: updateTask / updateSection of a stored id with a strictly earlier
\* updated_at leaves the whole store unchanged and does not throw; with an
\* equal or later updated_at the stored record becomes the incoming one.
C2_Staleness ==
  /\ \A t \in StoreTaskPool :
       MapHas(tasks, t.id) =>
         LET current == MapGet(tasks, t.id).updated_at
             r == StoreUpdateTask(StoreNow, t)
         IN /\ StrictlyEarlier(t.updated_at, current) => r.st = StoreNow /\ ~r.threw
            /\ NotEarlier(t.updated_at, current) =>
                 ~r.threw /\ MapGet(r.st.tasks, t.id) = t
  /\ \A s \in StoreSectionPool :
       MapHas(sections, s.id) =>
         LET current == MapGet(sections, s.id).updated_at
             r == StoreUpdateSection(StoreNow, s)
         IN /\ StrictlyEarlier(s.updated_at, current) => r.st = StoreNow /\ ~r.threw
            /\ NotEarlier(s.updated_at, current) =>
                 ~r.threw /\ MapGet(r.st.sections, s.id) = s

\* A stale updateTask was skipped, on a store whose task "a" is at instant t2.
C2_Witness ==
  /\ last = Last("updateTask", "a", "skipped", 0)
  /\ MapHas(tasks, "a")
  /\ DateParse(MapGet(tasks, "a").updated_at) = DateParse("t2")

\* (child_order ascending, then id ascending), strictly.
OrderedBefore(a, b) ==
  \/ a.child_order < b.child_order
  \/ a.child_order = b.child_order /\ IdRank(a.id) < IdRank(b.id)
RECURSIVE SiblingsSorted(_)
SiblingsSorted(list) ==
  /\ \A i, j \in 1..Len(list) : i < j => OrderedBefore(list[i], list[j])
  /\ \A i \in 1..Len(list) : SiblingsSorted(list[i].children)
Reverse(s) == [i \in 1..Len(s) |-> s[Len(s) + 1 - i]]

\* C3: in the snapshot of every reachable store every sibling list (children,
\* section tasks, unsectioned) is sorted by (child_order, id), and the lists
\* are the same when the tasks were inserted in the opposite order.
C3_SiblingsSorted ==
  LET snap == Snapshot(StoreNow)
      other == Snapshot(Store(project, sections, Reverse(tasks)))
  IN /\ SiblingsSorted(snap.unsectioned)
     /\ \A i \in 1..Len(snap.sections) : SiblingsSorted(snap.sections[i].tasks)
     /\ other = snap

\* Three unsectioned roots, two of them with the same child_order, inserted
\* in the order c, b, a.
C3_Witness ==
  /\ [i \in 1..Len(tasks) |-> tasks[i].id] = <<"c", "b", "a">>
  /\ Len(Snapshot(StoreNow).unsectioned) = 3
  /\ MapGet(tasks, "a").child_order = MapGet(tasks, "b").child_order

(***************************************************************************)
(* TaskView and TaskTree, as operations on one value tt                    *)
(***************************************************************************)
\* The tree, its store and its view as one value.
TreeNow ==
  [store |-> StoreNow, view |-> view, renderTimer |-> renderTimer,
   pendingSnapshot |-> pendingSnapshot, afterRenderCallbacks |-> afterRenderCallbacks,
   pendingTaskAddIds |-> pendingTaskAddIds, pendingSectionAddIds |-> pendingSectionAddIds,
   animationsInProgress |-> animationsInProgress, isRendering |-> isRendering,
   removals |-> removals, entered |-> entered, notified |-> notified,
   version |-> version,
   renders |-> renders]

SetTree(tt) ==
  /\ SetStore(tt.store)
  /\ view' = tt.view
  /\ renderTimer' = tt.renderTimer
  /\ pendingSnapshot' = tt.pendingSnapshot
  /\ afterRenderCallbacks' = tt.afterRenderCallbacks
  /\ pendingTaskAddIds' = tt.pendingTaskAddIds
  /\ pendingSectionAddIds' = tt.pendingSectionAddIds
  /\ animationsInProgress' = tt.animationsInProgress
  /\ isRendering' = tt.isRendering
  /\ removals' = tt.removals
  /\ entered' = tt.entered
  /\ notified' = tt.notified
  /\ version' = tt.version
  /\ renders' = tt.renders

\* this.store.snapshot(), tagged with the number of calls made so far (the
\* tag is history: it travels with the object and the code never reads it).
TreeSnapshot(tt) == [data |-> Snapshot(tt.store), ver |-> tt.version]

\* TaskView.findTaskElement / findSectionElement on the rendered DOM.
FindTaskElement(v, taskId) ==
  v.dom # NullObject /\ taskId \in SnapshotIds(v.dom.data)
FindSectionElement(v, sectionId) ==
  v.dom # NullObject
    /\ \E i \in 1..Len(v.dom.data.sections) : v.dom.data.sections[i].id = sectionId

\* What a hook of the embedding page does when it is invoked: nothing, or one
\* call back into the tree.
Mut(op, arg) == [op |-> op, arg |-> arg]
NoMut == Mut("none", Null)
Hooks(onAdd, onTreeChange) == [onAdd |-> onAdd, onTreeChange |-> onTreeChange]
NoHooks == Hooks(NoMut, NoMut)

\* The closures the tree hands out.
\* The afterRender closure of addTask / addSection carries, as history, the
\* number of the call that made it and the number of renders before it.
AfterRenderClosure(kind, id, tt) ==
  [kind |-> kind, id |-> id, call |-> tt.version, since |-> tt.renders]
DoneClosure(kind, id) == [fn |-> "done", kind |-> kind, el |-> id]
CapturingDoneClosure(kind, id, snapshot) ==
  [fn |-> "doneCaptured", kind |-> kind, el |-> id, snapshot |-> snapshot]

DebouncedQueueRender_KeepsFirst(tt, snapshot, afterRender) ==
  LET t1 == [tt EXCEPT !.pendingSnapshot = IF @ = NullObject THEN snapshot ELSE @,
                       !.afterRenderCallbacks = @ \o afterRender]
  IN IF t1.isRendering \/ t1.animationsInProgress > 0 THEN t1
     ELSE IF t1.renderTimer # "none" THEN t1
     ELSE [t1 EXCEPT !.renderTimer = "debounce"]

\* TaskTree.queueRender(snapshot, false, afterRender), the call every method
\* makes (immediate defaults to false); afterRender is <<>> or a one-element
\* sequence.
DebouncedQueueRender(tt, snapshot, afterRender) ==
  LET t1 == [tt EXCEPT !.pendingSnapshot = snapshot,
                       !.afterRenderCallbacks = @ \o afterRender]
  IN IF t1.isRendering \/ t1.animationsInProgress > 0 THEN t1
     ELSE IF t1.renderTimer # "none" THEN t1
     ELSE [t1 EXCEPT !.renderTimer = "debounce"]

\* The result of a TaskTree method: the tree after it and whether it threw.
Returned(tt) == [tt |-> [tt EXCEPT !.version = @ + 1], threw |-> FALSE]
Raised(tt) == [tt |-> tt, threw |-> TRUE]

\* TaskTree.organize
TreeOrganize(tt, data) ==
  LET t1 == [tt EXCEPT !.store = StoreOrganize(@, data), !.version = @ + 1]
  IN [tt |-> DebouncedQueueRender(t1, TreeSnapshot(t1), <<>>), threw |-> FALSE]

TreeRemoveTask_CapturedNoHold(tt, taskId) ==
  LET element == FindTaskElement(tt.view, taskId)
      t1 == [tt EXCEPT !.store = StoreRemoveTask(@, taskId), !.version = @ + 1]
      snapshot == TreeSnapshot(t1)
      t2 == IF element
            THEN [t1 EXCEPT !.removals = Append(@, CapturingDoneClosure("task", taskId, snapshot))]
            ELSE t1
  IN [tt |-> DebouncedQueueRender(t2, snapshot, <<>>), threw |-> FALSE]

\* A variant of removeTask that counts an animation whether or not an
\* element was found.
TreeRemoveTask_CountsUnrendered(tt, taskId) ==
  LET element == FindTaskElement(tt.view, taskId)
      t1 == [tt EXCEPT !.store = StoreRemoveTask(@, taskId), !.version = @ + 1,
                       !.animationsInProgress = @ + 1]
  IN IF element
     THEN [tt |-> [t1 EXCEPT !.removals = Append(@, DoneClosure("task", taskId))],
           threw |-> FALSE]
     ELSE [tt |-> DebouncedQueueRender(t1, TreeSnapshot(t1), <<>>), threw |-> FALSE]

\* TaskTree.removeTask; the removal hook (onTaskRemove) is declared, as the
\* widget declares it (src/unnamed/part_000:187).
TreeRemoveTask(tt, taskId) ==
  LET element == FindTaskElement(tt.view, taskId)
      t1 == [tt EXCEPT !.store = StoreRemoveTask(@, taskId), !.version = @ + 1]
  IN IF element
     THEN [tt |-> [t1 EXCEPT !.animationsInProgress = @ + 1,
                             !.removals = Append(@, DoneClosure("task", taskId))],
           threw |-> FALSE]
     ELSE [tt |-> DebouncedQueueRender(t1, TreeSnapshot(t1), <<>>), threw |-> FALSE]

TreeAddTask_MarksFirst(tt, task) ==
  LET t0 == [tt EXCEPT !.pendingTaskAddIds = @ \cup {task.id}]
      r == StoreAddTask(tt.store, task)
      t1 == [t0 EXCEPT !.store = r.st, !.version = @ + 1]
  IN IF r.threw THEN Raised(t0)
     ELSE [tt |-> DebouncedQueueRender(t1, TreeSnapshot(t1),
                              <<AfterRenderClosure("task", task.id, t1)>>),
           threw |-> FALSE]

\* TaskTree.addTask
TreeAddTask(tt, task) ==
  LET r == StoreAddTask(tt.store, task)
      t1 == [tt EXCEPT !.store = r.st, !.version = @ + 1,
                       !.pendingTaskAddIds = @ \cup {task.id}]
  IN IF r.threw THEN Raised(tt)
     ELSE [tt |-> DebouncedQueueRender(t1, TreeSnapshot(t1),
                              <<AfterRenderClosure("task", task.id, t1)>>),
           threw |-> FALSE]

\* TaskTree.addSection
TreeAddSection(tt, section) ==
  LET t1 == [tt EXCEPT !.store = StoreAddSection(@, section), !.version = @ + 1,
                       !.pendingSectionAddIds = @ \cup {section.id}]
  IN [tt |-> DebouncedQueueRender(t1, TreeSnapshot(t1),
                         <<AfterRenderClosure("section", section.id, t1)>>),
      threw |-> FALSE]

\* TaskTree.updateSection
TreeUpdateSection(tt, section) ==
  LET r == StoreUpdateSection(tt.store, section)
      t1 == [tt EXCEPT !.store = r.st, !.version = @ + 1]
  IN IF r.threw THEN Raised(tt)
     ELSE IF r.skipped THEN [tt |-> tt, threw |-> FALSE]
     ELSE [tt |-> DebouncedQueueRender(t1, TreeSnapshot(t1), <<>>), threw |-> FALSE]

TreeRemoveSection_DeleteOnDone(tt, sectionId) ==
  LET element == FindSectionElement(tt.view, sectionId)
      t1 == [tt EXCEPT !.store = StoreRemoveSection(@, sectionId), !.version = @ + 1]
  IN IF element
     THEN [tt |-> [tt EXCEPT !.version = @ + 1,
                             !.animationsInProgress = @ + 1,
                             !.removals = Append(@, DoneClosure("section", sectionId))],
           threw |-> FALSE]
     ELSE [tt |-> DebouncedQueueRender(t1, TreeSnapshot(t1), <<>>), threw |-> FALSE]

\* TaskTree.removeSection; onSectionRemove is declared
\* (src/unnamed/part_000:189).
TreeRemoveSection(tt, sectionId) ==
  LET element == FindSectionElement(tt.view, sectionId)
      t1 == [tt EXCEPT !.store = StoreRemoveSection(@, sectionId), !.version = @ + 1]
  IN IF element
     THEN [tt |-> [t1 EXCEPT !.animationsInProgress = @ + 1,
                             !.removals = Append(@, DoneClosure("section", sectionId))],
           threw |-> FALSE]
     ELSE [tt |-> DebouncedQueueRender(t1, TreeSnapshot(t1), <<>>), threw |-> FALSE]

TreeUpdateTask_SnapshotFirst(tt, updatedTask) ==
  LET r == StoreUpdateTask(tt.store, updatedTask)
      t1 == [tt EXCEPT !.store = r.st, !.version = @ + 1]
  IN IF r.threw THEN Raised(tt)
     ELSE [tt |-> DebouncedQueueRender(t1, TreeSnapshot(tt), <<>>), threw |-> FALSE]

\* TaskTree.updateTask
TreeUpdateTask(tt, updatedTask) ==
  LET r == StoreUpdateTask(tt.store, updatedTask)
      t1 == [tt EXCEPT !.store = r.st, !.version = @ + 1]
  IN IF r.threw THEN Raised(tt)
     ELSE [tt |-> DebouncedQueueRender(t1, TreeSnapshot(t1), <<>>), threw |-> FALSE]

\* One call of a public TaskTree method.
CallTree(tt, mu) ==
  CASE mu.op = "organize" -> TreeOrganize(tt, mu.arg)
    [] mu.op = "removeTask" -> TreeRemoveTask(tt, mu.arg)
    [] mu.op = "addTask" -> TreeAddTask(tt, mu.arg)
    [] mu.op = "addSection" -> TreeAddSection(tt, mu.arg)
    [] mu.op = "updateSection" -> TreeUpdateSection(tt, mu.arg)
    [] mu.op = "removeSection" -> TreeRemoveSection(tt, mu.arg)
    [] mu.op = "updateTask" -> TreeUpdateTask(tt, mu.arg)
    [] OTHER -> [tt |-> tt, threw |-> FALSE]

\* A hook calling back into the tree (the hooks of the model make calls that
\* do not throw).
ApplyMut(tt, mu) == CallTree(tt, mu).tt

\* callbacks.forEach((cb) => cb()) with the closures of addTask / addSection;
\* the add hook makes its call the first time it is invoked in the pass.
RECURSIVE RunCallbacks(_, _, _)
RunCallbacks(tt, callbacks, onAdd) ==
  IF callbacks = <<>> THEN tt
  ELSE LET cb == Head(callbacks)
           element == IF cb.kind = "task" THEN FindTaskElement(tt.view, cb.id)
                      ELSE FindSectionElement(tt.view, cb.id)
           hooked == [tt EXCEPT !.entered =
                         Append(@, [kind |-> cb.kind, id |-> cb.id, call |-> cb.call,
                                    since |-> cb.since, render |-> tt.renders])]
           t1 == IF element THEN ApplyMut(hooked, onAdd) ELSE tt
           t2 == IF cb.kind = "task"
                 THEN [t1 EXCEPT !.pendingTaskAddIds = @ \ {cb.id}]
                 ELSE [t1 EXCEPT !.pendingSectionAddIds = @ \ {cb.id}]
       IN RunCallbacks(t2, Tail(callbacks), IF element THEN NoMut ELSE onAdd)

\* this.hooks.onTreeChange(): the history records the call and the state of
\* the tree it finds; then the hook does what hk says.
OnTreeChange(tt, hk) ==
  ApplyMut([tt EXCEPT !.notified = [count |-> @.count + 1, renders |-> tt.renders,
                                    entered |-> Len(tt.entered),
                                    isRendering |-> tt.isRendering]],
           hk.onTreeChange)

FlushRender_NoHold(tt, hk) ==
  IF tt.pendingSnapshot = NullObject THEN tt
  ELSE LET t1 == [tt EXCEPT !.isRendering = TRUE,
                            !.view = [dom |-> tt.pendingSnapshot,
                                      pendingTaskAddIds |-> tt.pendingTaskAddIds,
                                      pendingSectionAddIds |-> tt.pendingSectionAddIds],
                            !.renders = @ + 1]
           t2 == [t1 EXCEPT !.pendingSnapshot = NullObject,
                            !.afterRenderCallbacks = <<>>]
           t3 == RunCallbacks(t2, t1.afterRenderCallbacks, hk.onAdd)
           t4 == [t3 EXCEPT !.isRendering = FALSE]
           t5 == OnTreeChange(t4, hk)
       IN IF t5.pendingSnapshot # NullObject
          THEN DebouncedQueueRender(t5, t5.pendingSnapshot, <<>>)
          ELSE t5

FlushRender_NotifiesFirst(tt, hk) ==
  IF tt.pendingSnapshot = NullObject THEN tt
  ELSE IF tt.animationsInProgress > 0
       THEN IF tt.renderTimer = "none" THEN [tt EXCEPT !.renderTimer = "poll"] ELSE tt
       ELSE LET t1 == [tt EXCEPT !.isRendering = TRUE,
                                 !.view = [dom |-> tt.pendingSnapshot,
                                           pendingTaskAddIds |-> tt.pendingTaskAddIds,
                                           pendingSectionAddIds |-> tt.pendingSectionAddIds],
                                 !.renders = @ + 1]
                t2 == [t1 EXCEPT !.pendingSnapshot = NullObject,
                                 !.afterRenderCallbacks = <<>>]
                t3 == OnTreeChange(t2, hk)
                t4 == RunCallbacks(t3, t1.afterRenderCallbacks, hk.onAdd)
                t5 == [t4 EXCEPT !.isRendering = FALSE]
            IN IF t5.pendingSnapshot # NullObject
               THEN DebouncedQueueRender(t5, t5.pendingSnapshot, <<>>)
               ELSE t5

\* TaskTree.flushRender; hk is what the hooks do in this pass.
FlushRender(tt, hk) ==
  IF tt.pendingSnapshot = NullObject THEN tt
  ELSE IF tt.animationsInProgress > 0
       THEN IF tt.renderTimer = "none" THEN [tt EXCEPT !.renderTimer = "poll"] ELSE tt
       ELSE LET t1 == [tt EXCEPT !.isRendering = TRUE,
                                 !.view = [dom |-> tt.pendingSnapshot,
                                           pendingTaskAddIds |-> tt.pendingTaskAddIds,
                                           pendingSectionAddIds |-> tt.pendingSectionAddIds],
                                 !.renders = @ + 1]
                t2 == [t1 EXCEPT !.pendingSnapshot = NullObject,
                                 !.afterRenderCallbacks = <<>>]
                t3 == RunCallbacks(t2, t1.afterRenderCallbacks, hk.onAdd)
                t4 == [t3 EXCEPT !.isRendering = FALSE]
                t5 == OnTreeChange(t4, hk)
            IN IF t5.pendingSnapshot # NullObject
               THEN DebouncedQueueRender(t5, t5.pendingSnapshot, <<>>)
               ELSE t5

\* TaskTree.queueRender
QueueRender(tt, snapshot, immediate, afterRender) ==
  LET t1 == [tt EXCEPT !.pendingSnapshot = snapshot,
                       !.afterRenderCallbacks = @ \o afterRender]
  IN IF t1.isRendering \/ t1.animationsInProgress > 0 THEN t1
     ELSE IF immediate THEN FlushRender([t1 EXCEPT !.renderTimer = "none"], NoHooks)
     ELSE DebouncedQueueRender(tt, snapshot, afterRender)

\* The debounce timeout of queueRender: flushRender(), then renderTimer = null.
DebounceCallback(tt, hk) == [FlushRender(tt, hk) EXCEPT !.renderTimer = "none"]

\* The poll timeout of flushRender: renderTimer = null, then flushRender().
PollCallback(tt, hk) == FlushRender([tt EXCEPT !.renderTimer = "none"], hk)

InvokeDone_NoRender(tt, closure) == [tt EXCEPT !.animationsInProgress = @ - 1]

\* The done callback of removeTask / removeSection.
InvokeDone(tt, closure) ==
  LET t1 == [tt EXCEPT !.animationsInProgress = @ - 1]
  IN IF closure.fn = "doneCaptured"
     THEN DebouncedQueueRender(tt, closure.snapshot, <<>>)
     ELSE DebouncedQueueRender(t1, TreeSnapshot(t1), <<>>)

(***************************************************************************)
(* The tree specification: a TaskTree driven through its public methods,   *)
(* its timeouts and the done callbacks of its removal hooks.               *)
(***************************************************************************)
\* The number of TaskTree calls a behaviour makes.
MaxVersion == 3

TreeTaskPool ==
  {Task("a", Null, Null, 1, "x", "t1"),
   Task("a", Null, Null, 1, "y", "t2"),
   Task("b", "a", Null, 1, "x", "t1")}
TreeSectionPool == {Section("s1", "S1", 0, "t1")}
TreePayloads ==
  {[project |-> [name |-> "P"], sections |-> <<Section("s1", "S1", 0, "t1")>>,
    tasks |-> <<Task("a", Null, "s1", 1, "x", "t1")>>]}

\* The calls a hook may make back into the tree; none of them throws.
HookMuts == {Mut("addSection", Section("s1", "S1", 0, "t1")), Mut("removeTask", "a")}
HookChoices ==
  {NoHooks} \cup {Hooks(mu, NoMut) : mu \in HookMuts}
            \cup {Hooks(NoMut, mu) : mu \in HookMuts}
CallsOf(hk) ==
  (IF hk.onAdd.op = "none" THEN 0 ELSE 1) + (IF hk.onTreeChange.op = "none" THEN 0 ELSE 1)

TreeInit ==
  /\ project = NullObject
  /\ sections = <<>>
  /\ tasks = <<>>
  /\ TreeFieldsInit
  /\ QueueFieldsInit
  /\ last = Last("new", Null, "ok", 0)

\* A call of a public method from outside any callback.
Call(mu, id) ==
  /\ version < MaxVersion
  /\ LET r == CallTree(TreeNow, mu)
     IN /\ SetTree(r.tt)
        /\ last' = Last(mu.op, id, IF r.threw THEN "threw" ELSE "ok",
                        Len(tasks) - Len(r.tt.store.tasks))
        /\ UNCHANGED queueVars

TaskTree_organize(data) == Call(Mut("organize", data), Null)
TaskTree_removeTask(id) == Call(Mut("removeTask", id), id)
TaskTree_addTask(t) == Call(Mut("addTask", t), t.id)
TaskTree_addSection(s) == Call(Mut("addSection", s), s.id)
TaskTree_updateSection(s) == Call(Mut("updateSection", s), s.id)
TaskTree_removeSection(id) == Call(Mut("removeSection", id), id)
TaskTree_updateTask(t) == Call(Mut("updateTask", t), t.id)

\* The debounce timeout expires.
DebounceTimerFires(hk) ==
  /\ renderTimer = "debounce"
  /\ version + CallsOf(hk) <= MaxVersion
  /\ SetTree(DebounceCallback(TreeNow, hk))
  /\ last' = Last("debounce", Null, "ok", 0)
  /\ UNCHANGED queueVars

\* The poll timeout expires.  No reachable state has this timeout armed (the
\* debounce callback runs flushRender with renderTimer still set, and
\* queueRender returns before its immediate branch while animations run), so
\* the action is no disjunct of TreeNext.
PollTimerFires(hk) ==
  /\ renderTimer = "poll"
  /\ version + CallsOf(hk) <= MaxVersion
  /\ SetTree(PollCallback(TreeNow, hk))
  /\ last' = Last("poll", Null, "ok", 0)
  /\ UNCHANGED queueVars

\* A removal hook calls the done callback it was given.
RemoveAt(s, i) == SubSeq(s, 1, i - 1) \o SubSeq(s, i + 1, Len(s))
AnimationDone(i) ==
  /\ i \in 1..Len(removals)
  /\ SetTree(InvokeDone([TreeNow EXCEPT !.removals = RemoveAt(@, i)], removals[i]))
  /\ last' = Last("done", removals[i].el, "ok", 0)
  /\ UNCHANGED queueVars

TreeNext ==
  \/ \E data \in TreePayloads : TaskTree_organize(data)
  \/ \E id \in {"a", "b"} : TaskTree_removeTask(id)
  \/ \E t \in TreeTaskPool : TaskTree_addTask(t)
  \/ \E s \in TreeSectionPool : TaskTree_addSection(s)
  \/ \E s \in TreeSectionPool : TaskTree_updateSection(s)
  \/ \E id \in SectionIds : TaskTree_removeSection(id)
  \/ \E t \in TreeTaskPool : TaskTree_updateTask(t)
  \/ \E hk \in HookChoices : DebounceTimerFires(hk)
  \/ \E i \in 1..2 : AnimationDone(i)

SpecTree == TreeInit /\ [][TreeNext]_vars

\* The steps of TreeNext in which the armed debounce timeout expires, and
\* those in which a removal hook calls its done callback, by what they do to
\* the timer, to the outstanding callbacks and to the history.
TimeoutExpires ==
  /\ renderTimer = "debounce"
  /\ last' = Last("debounce", Null, "ok", 0)
  /\ renderTimer' = "none"
HookCallsDone ==
  \E i \in 1..Len(removals) :
    /\ last' = Last("done", removals[i].el, "ok", 0)
    /\ removals' = RemoveAt(removals, i)

\* The tree with its scheduling: an armed timeout expires, and a removal hook
\* that was handed a done callback calls it.
SpecTreeLive ==
  /\ TreeInit
  /\ [][TreeNext]_vars
  /\ WF_<<last, renderTimer>>(TimeoutExpires)
  /\ WF_<<last, removals>>(HookCallsDone)

(***************************************************************************)
(* Properties of the render scheduling                                     *)
(***************************************************************************)
TreeCalls ==
  {"organize", "removeTask", "addTask", "addSection", "updateSection",
   "removeSection", "updateTask"}

\* C6 as stated: no call of a TaskTree method renders, and every expiry of
\* the debounce timeout (armed from an idle controller by the first call of a
\* burst) renders exactly once, the snapshot of the store as the calls left
\* it.
C6_OneRenderPerBurst ==
  [][/\ last'.op \in TreeCalls => renders' = renders
     /\ last'.op = "debounce" =>
          /\ renders' = renders + 1
          /\ view'.dom = pendingSnapshot
          /\ pendingSnapshot.data = Snapshot(StoreNow)]_vars

\* C6 amended: the same, for an expiry at which no exit animation is in
\* flight.
C6_OneRenderPerBurstNoAnimation ==
  [][/\ last'.op \in TreeCalls => renders' = renders
     /\ (last'.op = "debounce" /\ animationsInProgress = 0) =>
          /\ renders' = renders + 1
          /\ view'.dom = pendingSnapshot
          /\ pendingSnapshot.data = Snapshot(StoreNow)]_vars

\* The first render, of the snapshot of the second call: addTask then
\* updateTask, coalesced.
C6_Witness ==
  /\ last.op = "debounce"
  /\ renders = 1
  /\ view.dom # NullObject
  /\ view.dom.ver = 2
  /\ tasks = <<Task("a", Null, Null, 1, "y", "t2")>>

\* C7: a render pass, started by the debounce or by the poll timeout, during
\* which an add hook called a method of the tree (isRendering is true while
\* the after-render callbacks run) and which leaves no animation in flight,
\* ends with the pending snapshot kept and a render timeout armed for it.
C7_FollowUpScheduled ==
  \A mu \in HookMuts :
    LET hk == Hooks(mu, NoMut)
        passes == (IF renderTimer = "debounce" THEN {DebounceCallback(TreeNow, hk)} ELSE {})
                    \cup (IF renderTimer = "poll" THEN {PollCallback(TreeNow, hk)} ELSE {})
    IN \A r \in passes :
         (r.renders > renders /\ r.version > version /\ r.animationsInProgress = 0)
           => (r.pendingSnapshot # NullObject /\ r.renderTimer # "none")

\* C8: the snapshots handed to TaskView.render never go back in the order of
\* the calls that computed them.
C8_RendersMonotone ==
  [][(view.dom # NullObject /\ view'.dom # NullObject) => view'.dom.ver >= view.dom.ver]_vars

\* A second render, after an exit animation of "a" during which "b" was added.
C8_Witness ==
  /\ last.op = "debounce"
  /\ renders = 2
  /\ view.dom # NullObject
  /\ view.dom.ver = 3
  /\ Ids(tasks) = {"b"}

\* C9: whenever TaskView.render runs, it is handed the snapshot of the store
\* as it is at that moment.
C9_RenderIsCurrent ==
  [][renders' # renders => view'.dom.data = Snapshot(StoreNow)]_vars

\* A render after the exit animation of "a": the store delete was applied when
\* the animation started.
C9_Witness ==
  /\ last.op = "debounce"
  /\ renders = 2
  /\ tasks = <<>>
  /\ view.dom # NullObject
  /\ view.dom.data = Snapshot(StoreNow)
  /\ removals = <<>>
  /\ version = 2

\* C10: while an exit animation is in flight, a render request by any path
\* (the debounce callback, the poll callback, queueRender immediate or not)
\* does not call TaskView.render, and queueRender records the snapshot.
C10_NoRenderDuringAnimation ==
  animationsInProgress > 0 =>
    LET snapshot == TreeSnapshot(TreeNow)
        now == QueueRender(TreeNow, snapshot, TRUE, <<>>)
        later == QueueRender(TreeNow, snapshot, FALSE, <<>>)
    IN /\ \A hk \in HookChoices :
            /\ DebounceCallback(TreeNow, hk).renders = renders
            /\ PollCallback(TreeNow, hk).renders = renders
       /\ now.renders = renders /\ now.pendingSnapshot = snapshot
       /\ later.renders = renders /\ later.pendingSnapshot = snapshot

\* The debounce timeout expired during an exit animation and was held.
C10_Witness ==
  /\ last.op = "debounce"
  /\ animationsInProgress > 0
  /\ pendingSnapshot # NullObject
  /\ renderTimer = "none"

(***************************************************************************)
(* EventQueue and the widget's event handler                               *)
(***************************************************************************)
\* The widget's TaskTree and its EventQueue as one value.
QueueNow ==
  [tree |-> TreeNow, pendingEvents |-> pendingEvents,
   pendingEventTimers |-> pendingEventTimers, errors |-> errors,
   handled |-> handled]

SetQueue(qq) ==
  /\ SetTree(qq.tree)
  /\ pendingEvents' = qq.pendingEvents
  /\ pendingEventTimers' = qq.pendingEventTimers
  /\ errors' = qq.errors
  /\ handled' = qq.handled

Event(name, data) == [event_name |-> name, event_data |-> data]

\* One call of the handler, as the history records it.
Handled(event, threw) == [event |-> event, threw |-> threw]

ProcessEvent_ArchivedIgnored(tt, message) ==
  LET name == message.event_name
      data == message.event_data
  IN CASE name \in {"item:completed", "item:deleted"} -> TreeRemoveTask(tt, data.id)
       [] name \in {"section:deleted"} -> TreeRemoveSection(tt, data.id)
       [] name = "item:updated" -> TreeUpdateTask(tt, data)
       [] name = "project:updated" -> [tt |-> tt, threw |-> FALSE]
       [] name \in {"item:added", "item:uncompleted"} -> TreeAddTask(tt, data)
       [] name \in {"section:added", "section:unarchived"} -> TreeAddSection(tt, data)
       [] name = "section:updated" -> TreeUpdateSection(tt, data)
       [] OTHER -> [tt |-> tt, threw |-> FALSE]

\* ProjectWidgetScript.processEvent; project:updated writes the title element
\* only.
ProcessEvent(tt, message) ==
  LET name == message.event_name
      data == message.event_data
  IN CASE name \in {"item:completed", "item:deleted"} -> TreeRemoveTask(tt, data.id)
       [] name \in {"section:archived", "section:deleted"} -> TreeRemoveSection(tt, data.id)
       [] name = "item:updated" -> TreeUpdateTask(tt, data)
       [] name = "project:updated" -> [tt |-> tt, threw |-> FALSE]
       [] name \in {"item:added", "item:uncompleted"} -> TreeAddTask(tt, data)
       [] name \in {"section:added", "section:unarchived"} -> TreeAddSection(tt, data)
       [] name = "section:updated" -> TreeUpdateSection(tt, data)
       [] OTHER -> [tt |-> tt, threw |-> FALSE]

QueueForReorder_KeepsTimer(qq, entityId, event, timestamp) ==
  LET events == IF MapHas(qq.pendingEvents, entityId)
                THEN MapGet(qq.pendingEvents, entityId).events
                ELSE <<>>
      pushed == Append(events, [event |-> event, timestamp |-> timestamp])
  IN [qq EXCEPT !.pendingEvents = MapSet(@, [id |-> entityId, events |-> pushed]),
                !.pendingEventTimers =
                   IF entityId \in Range(@) THEN @ ELSE Append(@, entityId)]

QueueForReorder_SharedTimer(qq, entityId, event, timestamp) ==
  LET events == IF MapHas(qq.pendingEvents, entityId)
                THEN MapGet(qq.pendingEvents, entityId).events
                ELSE <<>>
      pushed == Append(events, [event |-> event, timestamp |-> timestamp])
  IN [qq EXCEPT !.pendingEvents = MapSet(@, [id |-> entityId, events |-> pushed]),
                !.pendingEventTimers = <<entityId>>]

\* EventQueue.queueForReorder
QueueForReorder(qq, entityId, event, timestamp) ==
  LET events == IF MapHas(qq.pendingEvents, entityId)
                THEN MapGet(qq.pendingEvents, entityId).events
                ELSE <<>>
      pushed == Append(events, [event |-> event, timestamp |-> timestamp])
  IN [qq EXCEPT !.pendingEvents = MapSet(@, [id |-> entityId, events |-> pushed]),
                !.pendingEventTimers =
                   Append(SelectSeq(@, LAMBDA x : x # entityId), entityId)]

EventQueue_process_BuffersWithoutId(qq, event, now) ==
  LET r == ProcessEvent(qq.tree, event)
      entityId == event.event_data.id
      timestamp == IF Truthy(event.event_data.updated_at)
                   THEN DateParse(event.event_data.updated_at)
                   ELSE now
      q0 == [qq EXCEPT !.handled = <<Handled(event, r.threw)>>]
  IN IF ~r.threw THEN [q0 EXCEPT !.tree = r.tt]
     ELSE QueueForReorder(q0, entityId, event, timestamp)

\* EventQueue.process; now is what Date.now() returns.
EventQueue_process(qq, event, now) ==
  LET r == ProcessEvent(qq.tree, event)
      entityId == event.event_data.id
      timestamp == IF Truthy(event.event_data.updated_at)
                   THEN DateParse(event.event_data.updated_at)
                   ELSE now
      q0 == [qq EXCEPT !.handled = <<Handled(event, r.threw)>>]
  IN IF ~r.threw THEN [q0 EXCEPT !.tree = r.tt]
     ELSE IF Truthy(entityId) THEN QueueForReorder(q0, entityId, event, timestamp)
     ELSE [q0 EXCEPT !.errors = @ + 1]

RECURSIVE Replay_StopsAtFailure(_, _)
Replay_StopsAtFailure(qq, events) ==
  IF events = <<>> THEN qq
  ELSE LET r == ProcessEvent(qq.tree, Head(events).event)
           q0 == [qq EXCEPT !.handled = Append(@, Handled(Head(events).event, r.threw))]
       IN IF r.threw THEN [q0 EXCEPT !.errors = @ + 1]
          ELSE Replay_StopsAtFailure([q0 EXCEPT !.tree = r.tt], Tail(events))

\* The loop of EventQueue.processPending: each event once, onError for one
\* that fails again.
RECURSIVE Replay(_, _)
Replay(qq, events) ==
  IF events = <<>> THEN qq
  ELSE LET r == ProcessEvent(qq.tree, Head(events).event)
           q0 == [qq EXCEPT !.handled = Append(@, Handled(Head(events).event, r.threw))]
       IN Replay(IF r.threw THEN [q0 EXCEPT !.errors = @ + 1]
                 ELSE [q0 EXCEPT !.tree = r.tt],
                 Tail(events))

ProcessPending_NoReplay(qq, entityId) ==
  [qq EXCEPT !.handled = <<>>,
             !.pendingEvents = MapDelete(@, entityId),
             !.pendingEventTimers = SelectSeq(@, LAMBDA x : x # entityId)]

\* EventQueue.processPending, the callback of the entity's timeout.
ProcessPending(qq, entityId) ==
  IF ~MapHas(qq.pendingEvents, entityId) THEN [qq EXCEPT !.handled = <<>>]
  ELSE LET events == MapGet(qq.pendingEvents, entityId).events
       IN IF events = <<>> THEN [qq EXCEPT !.handled = <<>>]
          ELSE LET q1 == Replay([qq EXCEPT !.handled = <<>>],
                                ArraySort("timestamp", events))
               IN [q1 EXCEPT !.pendingEvents = MapDelete(@, entityId),
                             !.pendingEventTimers = SelectSeq(@, LAMBDA x : x # entityId)]

EventQueue_clear_TimersOnly(qq) ==
  [qq EXCEPT !.handled = <<>>, !.pendingEventTimers = <<>>]

\* EventQueue.clear
EventQueue_clear(qq) ==
  [qq EXCEPT !.handled = <<>>, !.pendingEvents = <<>>, !.pendingEventTimers = <<>>]
(***************************************************************************)
(* The widget receiving realtime events                                    *)
(***************************************************************************)
\* The events of the transport, by the name the history knows them under: the
\* life of task "a" (added at t1, updated at t2 and at t3, deleted at t3), a
\* second add of "a" (uncompleted at t2), an update whose payload has no id,
\* and a section update without updated_at.
EventPool ==
  [added |-> Event("item:added", Task("a", Null, Null, 1, "x", "t1")),
   updated2 |-> Event("item:updated", Task("a", Null, Null, 1, "y", "t2")),
   updated3 |-> Event("item:updated", Task("a", Null, Null, 1, "z", "t3")),
   deleted |-> Event("item:deleted", Task("a", Null, Null, 1, "z", "t3")),
   uncompleted |-> Event("item:uncompleted", Task("a", Null, Null, 1, "w", "t2")),
   noid |-> Event("item:updated", Task(Null, Null, Null, 1, "x", "t1")),
   section |-> Event("section:updated", Section("s1", "S1", 0, Null))]

\* The events one behaviour delivers: the life of "a" with the events of other
\* entities, or the life of "a" with the second add.
Scenarios ==
  {{"added", "updated2", "updated3", "deleted", "noid", "section"},
   {"added", "updated2", "updated3", "uncompleted"}}

\* What Date.now() may return when an event is processed.
Clock == {1500, 2500}

QueueInit ==
  /\ project = NullObject
  /\ sections = <<>>
  /\ tasks = <<>>
  /\ TreeFieldsInit
  /\ QueueFieldsInit
  /\ last = Last("new", Null, "ok", 0)

\* The listener registered in onHomeyReady: push, then processEventQueue,
\* which hands the one queued message to EventQueue.process.
ProcessEventQueue(k, now) ==
  /\ k \notin delivered
  /\ \E S \in Scenarios : delivered \cup {k} \subseteq S
  /\ LET r == ProcessEvent(TreeNow, EventPool[k])
     IN /\ SetQueue(EventQueue_process(QueueNow, EventPool[k], now))
        /\ last' = Last("process", k, IF r.threw THEN "threw" ELSE "ok", 0)
  /\ delivered' = delivered \cup {k}
  /\ UNCHANGED <<expiries, widgetVars>>

\* The buffer of an entity, empty when it has none.
BufferedIn(pending, id) ==
  IF MapHas(pending, id) THEN MapGet(pending, id).events ELSE <<>>
Buffered(id) == BufferedIn(pendingEvents, id)

\* The reorder timeout armed first expires (all of them run reorderDelayMs).
ReorderTimerFires ==
  /\ pendingEventTimers # <<>>
  /\ LET entityId == Head(pendingEventTimers)
     IN /\ SetQueue(ProcessPending(QueueNow, entityId))
        /\ expiries' = expiries \cup {[id |-> entityId, seen |-> delivered,
                                        buffer |-> Buffered(entityId)]}
        /\ last' = Last("processPending", entityId, "ok", 0)
  /\ UNCHANGED <<delivered, widgetVars>>

\* EventQueue.clear() while something is buffered.
ClearQueue ==
  /\ pendingEventTimers # <<>>
  /\ SetQueue(EventQueue_clear(QueueNow))
  /\ expiries' = expiries \cup {[id |-> Null, seen |-> delivered, buffer |-> <<>>]}
  /\ last' = Last("clear", Null, "ok", 0)
  /\ UNCHANGED <<delivered, widgetVars>>

\* The debounce timeout of the tree expires; the widget's hooks call nothing
\* on the tree.
RenderTimerFires ==
  /\ renderTimer = "debounce"
  /\ SetTree(DebounceCallback(TreeNow, NoHooks))
  /\ last' = Last("debounce", Null, "ok", 0)
  /\ UNCHANGED queueVars

QueueNext ==
  \/ \E k \in DOMAIN EventPool, now \in Clock : ProcessEventQueue(k, now)
  \/ ReorderTimerFires
  \/ ClearQueue
  \/ RenderTimerFires
  \/ \E i \in 1..2 : AnimationDone(i)

SpecQueue == QueueInit /\ [][QueueNext]_vars
(***************************************************************************)
(* Properties of the reordering                                            *)
(***************************************************************************)
\* C4: when the reorder timeout of "a" expires with the update A alone in
\* the buffer (it failed while "a" was absent) and "a" in the store as the
\* later-delivered add B left it, A is replayed successfully: onError is not
\* called, the store is the one B-then-A gives (A's update applied to the
\* store B left) and nothing stays buffered or armed for "a".
C4_ReorderScenario ==
  [][(/\ last'.op = "processPending"
      /\ last'.id = "a"
      /\ Buffered("a") = <<[event |-> EventPool.updated2, timestamp |-> 2000]>>
      /\ MapHas(tasks, "a")
      /\ MapGet(tasks, "a") = EventPool.added.event_data)
     => /\ errors' = errors
        /\ tasks' = StoreUpdateTask(StoreNow, EventPool.updated2.event_data).st.tasks
        /\ MapGet(tasks', "a") = EventPool.updated2.event_data
        /\ sections' = sections
        /\ ~MapHas(pendingEvents', "a")
        /\ "a" \notin Range(pendingEventTimers')]_vars

\* The update failed, the add succeeded, the timeout expired after both.
C4_Witness ==
  /\ last.op = "processPending"
  /\ last.id = "a"
  /\ delivered = {"updated2", "added"}
  /\ expiries = {[id |-> "a", seen |-> {"updated2", "added"},
                   buffer |-> <<[event |-> EventPool.updated2, timestamp |-> 2000]>>]}
  /\ tasks = <<EventPool.updated2.event_data>>
  /\ errors = 0

\* The events of task "a", and what the store holds for "a" after a set of
\* them was delivered in causal order.
TaskEvents == {"added", "updated2", "updated3", "deleted"}
CausalContent(K) ==
  IF "deleted" \in K THEN <<>>
  ELSE IF "updated3" \in K THEN <<EventPool.updated3.event_data>>
  ELSE IF "updated2" \in K THEN <<EventPool.updated2.event_data>>
  ELSE <<EventPool.added.event_data>>

\* C5: once the events of "a" that were delivered (the add among them) have
\* all been delivered before any reorder timeout expired, no timeout is armed
\* any more and clear() was not called, the store holds for "a" what the
\* causal order gives.
C5_PermutationConverges ==
  LET K == delivered \cap TaskEvents
  IN (/\ "added" \in K
      /\ "uncompleted" \notin delivered
      /\ pendingEventTimers = <<>>
      /\ \A x \in expiries : x.id # Null /\ (x.id = "a" => x.seen \cap TaskEvents = K))
     => SelectSeq(tasks, LAMBDA t : t.id = "a") = CausalContent(K)
(***************************************************************************)
(* Properties of removals, failures and the dispatch                       *)
(***************************************************************************)
\* C11: right after removeTask / removeSection has handed its done callback
\* to the removal hook (the exit animation is running), the id is already out
\* of the store: item:updated / section:updated for it throws, and item:added
\* for it returns normally.
C11_DeleteBeforeAnimation ==
  /\ (last.op = "removeTask" /\ DoneClosure("task", last.id) \in Range(removals))
       => /\ animationsInProgress > 0
          /\ ~MapHas(tasks, last.id)
          /\ \A t \in TreeTaskPool :
               t.id = last.id =>
                 /\ ProcessEvent(TreeNow, Event("item:updated", t)).threw
                 /\ ~ProcessEvent(TreeNow, Event("item:added", t)).threw
                 /\ MapHas(ProcessEvent(TreeNow, Event("item:added", t)).tt.store.tasks, t.id)
  /\ (last.op = "removeSection" /\ DoneClosure("section", last.id) \in Range(removals))
       => /\ animationsInProgress > 0
          /\ ~MapHas(sections, last.id)
          /\ \A sec \in TreeSectionPool :
               sec.id = last.id => ProcessEvent(TreeNow, Event("section:updated", sec)).threw

\* The exit animation of the rendered task "a" has just been started.
C11_Witness ==
  /\ last.op = "removeTask"
  /\ last.id = "a"
  /\ animationsInProgress = 1
  /\ removals = <<DoneClosure("task", "a")>>
  /\ FindTaskElement(view, "a")
\* C12: in every state, addTask of a stored id throws, updateTask and
\* updateSection of an absent id throw, in the store and through the tree,
\* and the throwing call leaves the store and every field of the tree (the
\* pending snapshot, the pending-add sets, the render timeout, the callbacks)
\* as they were.
C12_FailuresChangeNothing ==
  /\ \A t \in TreeTaskPool :
       /\ MapHas(tasks, t.id) =>
            /\ StoreAddTask(StoreNow, t).threw
            /\ StoreAddTask(StoreNow, t).st = StoreNow
            /\ TreeAddTask(TreeNow, t).threw
            /\ TreeAddTask(TreeNow, t).tt = TreeNow
       /\ ~MapHas(tasks, t.id) =>
            /\ StoreUpdateTask(StoreNow, t).threw
            /\ StoreUpdateTask(StoreNow, t).st = StoreNow
            /\ TreeUpdateTask(TreeNow, t).threw
            /\ TreeUpdateTask(TreeNow, t).tt = TreeNow
  /\ \A sec \in TreeSectionPool :
       ~MapHas(sections, sec.id) =>
         /\ StoreUpdateSection(StoreNow, sec).threw
         /\ StoreUpdateSection(StoreNow, sec).st = StoreNow
         /\ TreeUpdateSection(TreeNow, sec).threw
         /\ TreeUpdateSection(TreeNow, sec).tt = TreeNow

\* addTask of "a" has just thrown, after "a" had been added and rendered.
C12_Witness ==
  /\ last.op = "addTask"
  /\ last.id = "a"
  /\ last.outcome = "threw"
  /\ MapHas(tasks, "a")
  /\ renders = 1
  /\ pendingTaskAddIds = {}
  /\ renderTimer = "none"
\* Failing events beside those of the pool: payloads whose id is undefined or
\* the empty string.
EventsWithoutId ==
  {Event("item:updated", Task(Null, Null, Null, 1, "x", "t1")),
   Event("item:updated", Task("", Null, Null, 1, "x", "t2")),
   Event("section:updated", Section(Null, "S", 0, "t1")),
   Event("section:updated", Section("", "S", 0, Null))}

PoolEvents == {EventPool[k] : k \in DOMAIN EventPool}

\* C13: in every state, process of an event that makes the handler throw and
\* whose payload has no id calls onError once before it returns and leaves the
\* buffers, the timeouts and the tree as they were; process of a throwing
\* event that has an id does not call onError.
C13_NoIdReportedAtOnce ==
  \A event \in EventsWithoutId \cup PoolEvents :
    \A now \in Clock :
      LET r == ProcessEvent(TreeNow, event)
          q == EventQueue_process(QueueNow, event, now)
      IN r.threw =>
           IF Truthy(event.event_data.id)
           THEN q.errors = errors
           ELSE /\ q.errors = errors + 1
                /\ q.pendingEvents = pendingEvents
                /\ q.pendingEventTimers = pendingEventTimers
                /\ q.tree = TreeNow

\* The update without id was delivered while a failed update of "a" was
\* buffered: one onError call, the buffer and the timeout as they were.
C13_Witness ==
  /\ last.op = "process"
  /\ last.id = "noid"
  /\ last.outcome = "threw"
  /\ errors = 1
  /\ pendingEventTimers = <<"a">>
  /\ Ids(pendingEvents) = {"a"}
  /\ delivered = {"updated2", "noid"}
\* The tree after the handler calls of a history that returned normally.
RECURSIVE ApplySuccessful(_, _)
ApplySuccessful(tt, calls) ==
  IF calls = <<>> THEN tt
  ELSE ApplySuccessful(IF Head(calls).threw THEN tt
                       ELSE ProcessEvent(tt, Head(calls).event).tt,
                       Tail(calls))
Occurrences(s, event) == Cardinality({i \in 1..Len(s) : s[i].event = event})

\* C14: the expiry of an entity's reorder timeout passes every event of the
\* entity's buffer to the handler exactly once; onError is called once for
\* each of these calls that throws; the calls that return keep their effect;
\* afterwards the entity has neither buffer nor timeout, and nothing was
\* added to any buffer.
C14_ReplayedOnce ==
  [][last'.op = "processPending" =>
       LET buffer == Buffered(last'.id)
       IN /\ buffer # <<>>
          /\ Len(handled') = Len(buffer)
          /\ \A i \in 1..Len(buffer) :
               Occurrences(handled', buffer[i].event) = Occurrences(buffer, buffer[i].event)
          /\ errors' = errors + Cardinality({i \in 1..Len(handled') : handled'[i].threw})
          /\ TreeNow' = ApplySuccessful(TreeNow, handled')
          /\ pendingEvents' = MapDelete(pendingEvents, last'.id)
          /\ pendingEventTimers' = SelectSeq(pendingEventTimers, LAMBDA x : x # last'.id)
          /\ last'.id \notin Range(pendingEventTimers')]_vars

\* A pass over three buffered events of "a": the update of t2 returned, the
\* second add threw, the update of t3 returned.
C14_Witness ==
  /\ last.op = "processPending"
  /\ last.id = "a"
  /\ Len(handled) = 3
  /\ ~handled[1].threw
  /\ handled[2].threw
  /\ handled[2].event = EventPool.uncompleted
  /\ ~handled[3].threw
  /\ errors = 1
  /\ tasks = <<EventPool.updated3.event_data>>
  /\ pendingEvents = <<>>
  /\ pendingEventTimers = <<>>
\* The timestamp an event is buffered under.
TimestampIn(buffer, event) ==
  (CHOOSE b \in Range(buffer) : b.event = event).timestamp

\* C15: an event that fails is buffered under Date.parse of its updated_at,
\* or under the time of the failure when it has none, and the expiry of the
\* entity's timeout passes the buffered events to the handler in ascending
\* order of these timestamps, whatever the order they were buffered in.
C15_ReplayInTimestampOrder ==
  [][/\ last'.op = "process" =>
          \A id \in Ids(pendingEvents') :
            Len(BufferedIn(pendingEvents', id)) > Len(Buffered(id)) =>
              LET after == BufferedIn(pendingEvents', id)
                  entry == after[Len(after)]
                  stamp == entry.event.event_data.updated_at
              IN IF Truthy(stamp) THEN entry.timestamp = DateParse(stamp)
                 ELSE entry.timestamp \in Clock
     /\ last'.op = "processPending" =>
          LET buffer == Buffered(last'.id)
          IN /\ {handled'[i].event : i \in 1..Len(handled')} = {buffer[i].event : i \in 1..Len(buffer)}
             /\ \A i, j \in 1..Len(handled') :
                  i < j => TimestampIn(buffer, handled'[i].event)
                             <= TimestampIn(buffer, handled'[j].event)]_vars

\* The update of t3 was buffered before the update of t2; the pass handed
\* them to the handler in the order t2, t3.
C15_Witness ==
  /\ last.op = "processPending"
  /\ \E x \in expiries :
       /\ x.id = "a"
       /\ Len(x.buffer) = 2
       /\ x.buffer[1].event = EventPool.updated3
       /\ x.buffer[2].event = EventPool.updated2
  /\ Len(handled) = 2
  /\ handled[1].event = EventPool.updated2
  /\ handled[2].event = EventPool.updated3
\* An EventQueue as the constructor leaves it, around a given tree and with a
\* given count of earlier onError calls.
FreshQueue(tt, reported) ==
  [tree |-> tt, pendingEvents |-> <<>>, pendingEventTimers |-> <<>>,
   errors |-> reported, handled |-> <<>>]

\* C16: clear() leaves no timeout and no buffer, touches neither the tree nor
\* the onError count, and leaves the queue as a new queue is (so that later
\* events are processed as by a new queue); after it, no event delivered, and
\* so none buffered, before the clear() is passed to the handler, and onError
\* is only called for handler calls of later events.
C16_ClearDiscards ==
  [][/\ last'.op = "clear" =>
          /\ pendingEvents' = <<>>
          /\ pendingEventTimers' = <<>>
          /\ QueueNow' = FreshQueue(TreeNow, errors)
     /\ last'.op \in {"process", "processPending"} =>
          /\ \A x \in expiries :
               x.id = Null =>
                 \A i \in 1..Len(handled') : \A k \in x.seen :
                   handled'[i].event # EventPool[k]
          /\ errors' - errors <= Cardinality({i \in 1..Len(handled') : handled'[i].threw})
     /\ last'.op \notin {"process", "processPending"} => errors' = errors]_vars

\* The update of t2 failed and was buffered, clear() was called, the update of
\* t3 failed, and the timeout expired: the pass replayed the update of t3
\* alone.
C16_Witness ==
  /\ last.op = "processPending"
  /\ last.id = "a"
  /\ \E x \in expiries : x.id = Null /\ "updated2" \in x.seen /\ "updated3" \notin x.seen
  /\ "added" \notin delivered
  /\ handled = <<Handled(EventPool.updated3, TRUE)>>
  /\ errors = 1
\* Event names outside the table of the handler, and a queue with a buffer.
OtherNames == {"project:updated", "note:added", "item:moved", ""}
BufferingQueue ==
  [QueueNow EXCEPT
     !.pendingEvents = <<[id |-> "b", events |->
                            <<[event |-> Event("item:updated", Task("b", "a", Null, 1, "x", "t1")),
                               timestamp |-> 1000]>>]>>,
     !.pendingEventTimers = <<"b">>]

\* C17: in every state the handler does, for each event name of the table,
\* what the TaskTree method of the table does with the payload (its id for
\* the removals); for any other name it returns normally, and process leaves
\* the tree (store and pending snapshot included), the buffers, the timeouts
\* and the onError count as they were.
C17_Dispatch ==
  /\ \A t \in TreeTaskPool :
       /\ \A name \in {"item:completed", "item:deleted"} :
            ProcessEvent(TreeNow, Event(name, t)) = TreeRemoveTask(TreeNow, t.id)
       /\ ProcessEvent(TreeNow, Event("item:updated", t)) = TreeUpdateTask(TreeNow, t)
       /\ \A name \in {"item:added", "item:uncompleted"} :
            ProcessEvent(TreeNow, Event(name, t)) = TreeAddTask(TreeNow, t)
  /\ \A sec \in TreeSectionPool :
       /\ \A name \in {"section:archived", "section:deleted"} :
            ProcessEvent(TreeNow, Event(name, sec)) = TreeRemoveSection(TreeNow, sec.id)
       /\ \A name \in {"section:added", "section:unarchived"} :
            ProcessEvent(TreeNow, Event(name, sec)) = TreeAddSection(TreeNow, sec)
       /\ ProcessEvent(TreeNow, Event("section:updated", sec)) = TreeUpdateSection(TreeNow, sec)
  /\ \A name \in OtherNames :
       \A data \in TreeTaskPool \cup TreeSectionPool \cup {[name |-> "P"]} :
         \A qq \in {QueueNow, BufferingQueue} :
           LET q == EventQueue_process(qq, Event(name, data), 1500)
           IN /\ ~ProcessEvent(TreeNow, Event(name, data)).threw
              /\ q.tree = TreeNow
              /\ q.pendingEvents = qq.pendingEvents
              /\ q.pendingEventTimers = qq.pendingEventTimers
              /\ q.errors = errors

\* Section "s1" and its task "a" are stored and rendered: section:archived
\* for "s1" empties the store and starts the exit animation of the section.
C17_Witness ==
  /\ MapHas(sections, "s1")
  /\ MapHas(tasks, "a")
  /\ FindSectionElement(view, "s1")
  /\ animationsInProgress = 0
  /\ LET r == ProcessEvent(TreeNow, Event("section:archived", Section("s1", "S1", 0, "t1")))
     IN /\ ~r.threw
        /\ r.tt.store.sections = <<>>
        /\ r.tt.store.tasks = <<>>
        /\ r.tt.animationsInProgress = 1
\* The pending-add set of a kind, in a set pair p (the tree's or the view's).
PendingIds(kind, taskIds, sectionIds) == IF kind = "task" THEN taskIds ELSE sectionIds
Rendered(v, kind, id) ==
  IF kind = "task" THEN FindTaskElement(v, id) ELSE FindSectionElement(v, id)

\* C20: the id of every addTask / addSection call that waits for its render
\* is in the pending-add set, and the render hands that set to the view; the
\* add hook is called only in the pass of the first render after the call,
\* after the render, at most once per call and only when the element is in
\* that render; and when the pass is over the id of every add it served is
\* out of the pending-add set, unless a call made during the pass added the
\* id again.
C20_EnterHookOncePerAdd ==
  [][/\ \A i \in 1..Len(afterRenderCallbacks') :
          LET cb == afterRenderCallbacks'[i]
          IN cb.id \in PendingIds(cb.kind, pendingTaskAddIds', pendingSectionAddIds')
     /\ renders' = renders => entered' = entered
     /\ renders' = renders + 1 =>
          /\ view'.pendingTaskAddIds = pendingTaskAddIds
          /\ view'.pendingSectionAddIds = pendingSectionAddIds
          /\ \A i \in 1..Len(afterRenderCallbacks) :
               LET cb == afterRenderCallbacks[i]
               IN /\ cb.id \in PendingIds(cb.kind, view'.pendingTaskAddIds,
                                          view'.pendingSectionAddIds)
                  /\ \/ cb.id \notin PendingIds(cb.kind, pendingTaskAddIds', pendingSectionAddIds')
                     \/ \E j \in 1..Len(afterRenderCallbacks') :
                          /\ afterRenderCallbacks'[j].kind = cb.kind
                          /\ afterRenderCallbacks'[j].id = cb.id
          /\ Len(entered') >= Len(entered)
          /\ SubSeq(entered', 1, Len(entered)) = entered
          /\ \A i \in (Len(entered) + 1)..Len(entered') :
               LET e == entered'[i]
               IN /\ \E j \in 1..Len(afterRenderCallbacks) :
                       afterRenderCallbacks[j].call = e.call
                  /\ e.render = renders'
                  /\ e.render = e.since + 1
                  /\ Rendered(view', e.kind, e.id)
     /\ \A i, j \in 1..Len(entered') : entered'[i].call = entered'[j].call => i = j]_vars
(***************************************************************************)
(* The snapshot as a partition, and the cascade of removeSection           *)
(***************************************************************************)
\* How many nodes of a list of TaskNodes, children included, carry the id.
RECURSIVE NodeCount(_, _)
NodeCount(list, id) ==
  IF list = <<>> THEN 0
  ELSE (IF Head(list).id = id THEN 1 ELSE 0)
         + NodeCount(Head(list).children, id) + NodeCount(Tail(list), id)
RECURSIVE SectionsCount(_, _)
SectionsCount(secs, id) ==
  IF secs = <<>> THEN 0
  ELSE NodeCount(Head(secs).tasks, id) + SectionsCount(Tail(secs), id)
TopIds(list) == {list[i].id : i \in 1..Len(list)}

\* C18: in every reachable store, every stored task is exactly one node of
\* the snapshot (over all section trees and the unsectioned tree); a root
\* whose section_id is a stored section is a top-level task of that section;
\* a root with no section_id, or with a section_id that is not a stored
\* section, is a top-level task of unsectioned.
C18_SnapshotPartitions ==
  LET snap == Snapshot(StoreNow)
  IN /\ \A id \in Ids(tasks) :
          NodeCount(snap.unsectioned, id) + SectionsCount(snap.sections, id) = 1
     /\ \A i \in 1..Len(tasks) :
          LET t == tasks[i]
          IN ~HasParentNode(tasks, t) =>
               IF Truthy(t.section_id) /\ MapHas(sections, t.section_id)
               THEN \E j \in 1..Len(snap.sections) :
                      /\ snap.sections[j].id = t.section_id
                      /\ t.id \in TopIds(snap.sections[j].tasks)
               ELSE t.id \in TopIds(snap.unsectioned)

\* C19: in every reachable store, removeSection of a stored section id
\* removes the section record, the tasks filed under it that have no parent
\* in the store, and the tasks whose parent chain leads to one of those (a
\* task filed under it whose parent is a stored task outside that set
\* stays), and leaves every
\* other task and section as it was; removeSection of an id that is not
\* stored returns the store unchanged.
C19_RemoveSectionExact ==
  \A sid \in SectionIds \cup {"s2"} :
    LET after == StoreRemoveSection(StoreNow, sid)
        top == {tasks[i].id : i \in {k \in 1..Len(tasks) :
                   tasks[k].section_id = sid /\ ~HasParentNode(tasks, tasks[k])}}
        gone == top \cup UNION {Descendants(tasks, P) : P \in top}
    IN IF ~MapHas(sections, sid) THEN after = StoreNow
       ELSE /\ after.sections = MapDelete(sections, sid)
            /\ after.tasks = SelectSeq(tasks, LAMBDA t : t.id \notin gone)
            /\ after.project = project
(***************************************************************************)
(* Bulk load, upsert of sections, idempotence of the snapshot              *)
(***************************************************************************)
\* C22: from every reachable store and for every bulk payload, organize
\* leaves a store that holds the payload's project, exactly the payload's
\* sections and exactly the payload's tasks (none when the payload omits the
\* list), whatever the store held before and whatever the updated_at of the
\* records it held.
C22_OrganizeReplaces ==
  \A data \in StorePayloads :
    LET after == StoreOrganize(StoreNow, data)
    IN /\ after.project = data.project
       /\ after.sections = ListOf(data, "sections")
       /\ after.tasks = ListOf(data, "tasks")

\* A store whose task "a" and section "s1" are newer than the records of the
\* second payload, and which holds a task the payload does not have.
C22_Witness ==
  /\ MapHas(tasks, "a") /\ MapHas(tasks, "b") /\ MapHas(sections, "s1")
  /\ DateParse(MapGet(tasks, "a").updated_at) = DateParse("t2")
  /\ DateParse(MapGet(sections, "s1").updated_at) = DateParse("t2")
  /\ \E data \in StorePayloads :
       /\ ListOf(data, "tasks") # <<>>
       /\ StrictlyEarlier(ListOf(data, "tasks")[1].updated_at, MapGet(tasks, "a").updated_at)
       /\ ListOf(data, "tasks")[1].id = "a"
\* C23: from every reachable store and for every section payload, addSection
\* returns normally (also through TaskTree.addSection), the stored section of
\* that id is the incoming one whether the id was stored or not and whatever
\* the two updated_at values, the stored section ids are the former ones and
\* the incoming one, and the tasks and the project are unchanged.
C23_AddSectionUpserts ==
  \A sec \in StoreSectionPool :
    LET after == StoreAddSection(StoreNow, sec)
        r == CallTree(TreeNow, Mut("addSection", sec))
    IN /\ ~r.threw
       /\ r.tt.store = after
       /\ MapGet(after.sections, sec.id) = sec
       /\ Ids(after.sections) = Ids(sections) \cup {sec.id}
       /\ after.tasks = tasks
       /\ after.project = project

\* A store with tasks whose section s1 is at instant t2, later than the t1 of
\* a section payload.
C23_Witness ==
  /\ MapHas(sections, "s1")
  /\ tasks # <<>>
  /\ \E sec \in StoreSectionPool :
       StrictlyEarlier(sec.updated_at, MapGet(sections, sec.id).updated_at)
\* The largest depth of a list of TaskNodes, -1 for the empty list.
RECURSIVE MaxDepth(_)
MaxDepth(list) ==
  IF list = <<>> THEN -1
  ELSE LET here == Head(list).depth
           below == MaxDepth(Head(list).children)
           rest == MaxDepth(Tail(list))
           m1 == IF below > here THEN below ELSE here
       IN IF rest > m1 THEN rest ELSE m1

C21_NotifiedAfterRender ==
  [][/\ renders' \in {renders, renders + 1}
     /\ renders' = renders => notified' = notified
     /\ renders' = renders + 1 =>
          /\ notified'.count = notified.count + 1
          /\ notified'.renders = renders'
          /\ notified'.entered = Len(entered')
          /\ ~notified'.isRendering
     /\ notified'.count = renders']_vars

\* The second render pass of a behaviour: its after-render callback called
\* the add hook, and onTreeChange was called after that.
C21_Witness ==
  /\ last.op = "debounce"
  /\ notified.count = 2
  /\ notified.renders = 2
  /\ notified.entered = Len(entered)
  /\ entered # <<>>
  /\ entered[Len(entered)].render = 2
(***************************************************************************)
(* Rendering after the animations                                          *)
(***************************************************************************)
\* The animation counter has just returned to zero with a snapshot pending.
AnimationsOver ==
  last.op = "done" /\ animationsInProgress = 0 /\ pendingSnapshot # NullObject
\* The debounce timeout has just expired during an animation and was held.
DebounceHeld ==
  /\ last.op = "debounce"
  /\ animationsInProgress > 0
  /\ pendingSnapshot # NullObject

\* C29: when the animation counter returns to zero with a snapshot pending, a
\* flush is scheduled, and unless a new animation starts a snapshot at least
\* as recent as the pending one is eventually rendered (one timer expiry
\* later); and after a debounce expiry that was held by an animation, a
\* render eventually follows, the removal hooks calling their done callbacks.
C29_PendingEventuallyRendered ==
  /\ [](AnimationsOver => renderTimer = "debounce")
  /\ \A v \in 0..(MaxVersion + 1) :
       (AnimationsOver /\ pendingSnapshot.ver = v)
         ~> (animationsInProgress > 0 \/ (view.dom # NullObject /\ view.dom.ver >= v))
  /\ \A n \in 0..(MaxVersion + 1) :
       (DebounceHeld /\ renders = n) ~> (renders > n)

\* The last animation ended after the debounce timeout had expired and been
\* held: a snapshot is pending and the only armed timeout is the one the done
\* callback armed.
C29_Witness ==
  /\ AnimationsOver
  /\ renderTimer = "debounce"
  /\ renders >= 1
  /\ pendingSnapshot.ver > view.dom.ver
(***************************************************************************)
(* Re-arming, and reordering per entity                                    *)
(***************************************************************************)
\* The step handed an event with an entity id to EventQueue.process and the
\* handler threw.
FailedWithId ==
  /\ last'.op = "process"
  /\ last'.outcome = "threw"
  /\ Truthy(EventPool[last'.id].event_data.id)
FailedId == EventPool[last'.id].event_data.id

\* C27: a failure for an entity adds the event to the entity's buffer and
\* leaves the entity exactly one timeout, the one armed last of all (the
\* earlier one is cancelled), so it expires a full window after this failure;
\* no entity ever has two timeouts, and the entities with a timeout are those
\* with a buffer; the expiry of the timeout replays every event of the buffer
\* in one pass and leaves the entity neither buffer nor timeout.
C27_BurstCollapses ==
  [][/\ FailedWithId =>
          /\ pendingEventTimers' =
               Append(SelectSeq(pendingEventTimers, LAMBDA x : x # FailedId), FailedId)
          /\ Len(BufferedIn(pendingEvents', FailedId)) = Len(Buffered(FailedId)) + 1
     /\ \A i, j \in 1..Len(pendingEventTimers') :
          pendingEventTimers'[i] = pendingEventTimers'[j] => i = j
     /\ Range(pendingEventTimers') = Ids(pendingEvents')
     /\ last'.op = "processPending" =>
          /\ last'.id = Head(pendingEventTimers)
          /\ Len(handled') = Len(Buffered(last'.id))
          /\ \A i \in 1..Len(handled') :
               \E j \in 1..Len(Buffered(last'.id)) :
                 Buffered(last'.id)[j].event = handled'[i].event
          /\ last'.id \notin Range(pendingEventTimers')
          /\ ~MapHas(pendingEvents', last'.id)]_vars

\* The two updates of "a" failed, the section update failed before the
\* second of them had its pass, the timeout of s1 expired first, and the pass
\* for "a" then replayed both updates.
C27_Witness ==
  /\ last.op = "processPending"
  /\ last.id = "a"
  /\ Len(handled) = 2
  /\ \E e \in expiries :
       e.id = "s1" /\ {"updated2", "updated3"} \subseteq e.seen
  /\ \E e \in expiries : e.id = "a" /\ Len(e.buffer) = 2
\* C28: a failure buffered for one entity leaves the buffer of every other
\* entity and the order of the other entities' timeouts as they were; a
\* replay pass for an entity passes to the handler only events buffered under
\* that entity, with that entity's id, and leaves the other buffers and
\* timeouts as they were; an event the handler accepts at first processing is
\* handled at once and changes no buffer and no timeout.
C28_PerEntity ==
  [][/\ FailedWithId =>
          /\ \A X \in Ids(pendingEvents) \ {FailedId} :
               BufferedIn(pendingEvents', X) = Buffered(X)
          /\ SelectSeq(pendingEventTimers', LAMBDA x : x # FailedId)
               = SelectSeq(pendingEventTimers, LAMBDA x : x # FailedId)
     /\ last'.op = "processPending" =>
          /\ \A i \in 1..Len(handled') :
               /\ handled'[i].event.event_data.id = last'.id
               /\ \E j \in 1..Len(Buffered(last'.id)) :
                    Buffered(last'.id)[j].event = handled'[i].event
          /\ \A Y \in Ids(pendingEvents) \ {last'.id} :
               BufferedIn(pendingEvents', Y) = Buffered(Y)
          /\ pendingEventTimers' = SelectSeq(pendingEventTimers, LAMBDA x : x # last'.id)
     /\ (last'.op = "process" /\ last'.outcome = "ok") =>
          /\ pendingEvents' = pendingEvents
          /\ pendingEventTimers' = pendingEventTimers
          /\ handled' = <<Handled(EventPool[last'.id], FALSE)>>]_vars

\* The pass for "a" has run while the failed section update stayed buffered
\* under s1 with its timeout.
C28_Witness ==
  /\ last.op = "processPending"
  /\ last.id = "a"
  /\ handled # <<>>
  /\ Buffered("s1") # <<>>
  /\ pendingEventTimers = <<"s1">>
(***************************************************************************)
(* The widget's ingestion queue: the transport listener, processEventQueue *)
(* and the title element                                                   *)
(***************************************************************************)
\* The widget as one value: its EventQueue (with the tree), its ingestion
\* queue, its flag and its title element.
WidgetNow ==
  [queue |-> QueueNow, eventQueue |-> eventQueue, processingQueue |-> processingQueue,
   projectTitle |-> projectTitle, passed |-> passed]

SetWidget(w) ==
  /\ SetQueue(w.queue)
  /\ eventQueue' = w.eventQueue
  /\ processingQueue' = w.processingQueue
  /\ projectTitle' = w.projectTitle
  /\ passed' = w.passed

\* A message that is no object (null): reading message.event_name throws in
\* processEvent, and reading event.event_data throws again in the catch block
\* of EventQueue.process, so that process itself throws.
Malformed == NullObject
ProcessThrows(message) == message = Malformed

\* The part of processEvent that writes the title element.
ProcessEvent_Title(title, message) ==
  IF message.event_name = "project:updated" THEN message.event_data.name ELSE title

\* The while loop of processEventQueue: shift, process inside try / catch.
RECURSIVE ProcessEventQueueLoop(_, _)
ProcessEventQueueLoop(w, now) ==
  IF w.eventQueue = <<>> THEN w
  ELSE LET message == Head(w.eventQueue)
           w1 == [w EXCEPT !.eventQueue = Tail(@), !.passed = Append(@, message)]
           w2 == IF ProcessThrows(message)
                 THEN [w1 EXCEPT !.queue.handled = <<Handled(message, TRUE)>>]
                 ELSE [w1 EXCEPT !.queue = EventQueue_process(@, message, now),
                                 !.projectTitle = ProcessEvent_Title(@, message)]
       IN ProcessEventQueueLoop(w2, now)

Widget_processEventQueue_FlagStays(w, now) ==
  IF w.processingQueue THEN w
  ELSE ProcessEventQueueLoop([w EXCEPT !.processingQueue = TRUE], now)

\* ProjectWidgetScript.processEventQueue (no await in its body: it runs to
\* its end within the call).
Widget_processEventQueue(w, now) ==
  IF w.processingQueue THEN w
  ELSE [ProcessEventQueueLoop([w EXCEPT !.processingQueue = TRUE], now)
          EXCEPT !.processingQueue = FALSE]

\* The transport listener: push, then processEventQueue.
Widget_onMessage(w, message, now) ==
  Widget_processEventQueue([w EXCEPT !.eventQueue = Append(@, message)], now)

\* The number of messages a behaviour receives.
MaxArrivals == 3

\* The bulk payload synchronize() loads before the listener is registered.
IngestPayload ==
  [project |-> [id |-> "p1", name |-> "P"],
   sections |-> <<Section("s1", "S1", 0, "t1")>>,
   tasks |-> <<Task("b", Null, "s1", 1, "x", "t1")>>]

\* The messages of the transport: the life of task "a", a rename of the
\* project, and a malformed message.
IngestPool ==
  [added |-> Event("item:added", Task("a", Null, Null, 1, "x", "t1")),
   updated |-> Event("item:updated", Task("a", Null, Null, 1, "y", "t2")),
   deleted |-> Event("item:deleted", Task("a", Null, Null, 1, "y", "t3")),
   renamed |-> Event("project:updated", [id |-> "p1", name |-> "Q"]),
   malformed |-> Malformed]

\* A TaskTree as its constructor leaves it.
NewTree ==
  [store |-> EmptyStore,
   view |-> [dom |-> NullObject, pendingTaskAddIds |-> {}, pendingSectionAddIds |-> {}],
   renderTimer |-> "none", pendingSnapshot |-> NullObject, afterRenderCallbacks |-> <<>>,
   pendingTaskAddIds |-> {}, pendingSectionAddIds |-> {}, animationsInProgress |-> 0,
   isRendering |-> FALSE, removals |-> <<>>, entered |-> <<>>,
   notified |-> [count |-> 0, renders |-> 0, entered |-> 0, isRendering |-> FALSE],
   version |-> 0, renders |-> 0]

\* The widget when onHomeyReady registers the listener: synchronize() has set
\* the title and organized the tree, or the fetch failed and it has done
\* neither.
Synchronized == [title |-> "P", tree |-> TreeOrganize(NewTree, IngestPayload).tt]
NotSynchronized == [title |-> "", tree |-> NewTree]

IngestInit ==
  \E start \in {Synchronized, NotSynchronized} :
    /\ project = start.tree.store.project
    /\ sections = start.tree.store.sections
    /\ tasks = start.tree.store.tasks
    /\ view = start.tree.view
    /\ renderTimer = start.tree.renderTimer
    /\ pendingSnapshot = start.tree.pendingSnapshot
    /\ afterRenderCallbacks = start.tree.afterRenderCallbacks
    /\ pendingTaskAddIds = start.tree.pendingTaskAddIds
    /\ pendingSectionAddIds = start.tree.pendingSectionAddIds
    /\ animationsInProgress = start.tree.animationsInProgress
    /\ isRendering = start.tree.isRendering
    /\ removals = start.tree.removals
    /\ entered = start.tree.entered
    /\ notified = start.tree.notified
    /\ version = start.tree.version
    /\ renders = start.tree.renders
    /\ projectTitle = start.title
    /\ pendingEvents = <<>>
    /\ pendingEventTimers = <<>>
    /\ errors = 0
    /\ handled = <<>>
    /\ delivered = {}
    /\ expiries = {}
    /\ eventQueue = <<>>
    /\ processingQueue = FALSE
    /\ arrived = <<>>
    /\ passed = <<>>
    /\ PageFieldsInit
    /\ last = Last("new", Null, "ok", 0)

\* The transport delivers a message.
Listener(k, now) ==
  /\ Len(arrived) < MaxArrivals
  /\ SetWidget(Widget_onMessage(WidgetNow, IngestPool[k], now))
  /\ arrived' = Append(arrived, IngestPool[k])
  /\ last' = Last("listener", k, IF ProcessThrows(IngestPool[k]) THEN "threw" ELSE "ok", 0)
  /\ UNCHANGED <<delivered, expiries, pageVars>>

IngestNext ==
  \/ \E k \in DOMAIN IngestPool, now \in Clock : Listener(k, now)
  \/ ReorderTimerFires
  \/ RenderTimerFires
  \/ \E i \in 1..2 : AnimationDone(i)

SpecIngest == IngestInit /\ [][IngestNext]_vars
\* C30: the messages handed to EventQueue.process are the messages received,
\* each once and in the order of arrival; the step that receives a message
\* hands over that message and no other, and the handler is called for it
\* alone; this also after a message for which process threw or the handler
\* threw; and whenever the widget is idle the ingestion queue is empty and
\* its flag is false.
C30_OneAtATime ==
  [][/\ passed' = arrived'
     /\ eventQueue' = <<>>
     /\ processingQueue' = FALSE
     /\ last'.op = "listener" =>
          /\ arrived' = Append(arrived, IngestPool[last'.id])
          /\ passed' = Append(passed, IngestPool[last'.id])
          /\ Len(handled') = 1
          /\ handled'[1].event = IngestPool[last'.id]
     /\ last'.op # "listener" => passed' = passed /\ arrived' = arrived]_vars

\* A malformed message (process threw), then an update of the absent task
\* (the handler threw), then the add, which was processed.
C30_Witness ==
  /\ arrived = <<IngestPool.malformed, IngestPool.updated, IngestPool.added>>
  /\ passed = arrived
  /\ last = Last("listener", "added", "ok", 0)
  /\ MapHas(tasks, "a")
  /\ ~processingQueue
\* C25: when a project:updated message has been processed on a store that
\* holds a project, the stored project has the name of the message and its
\* other fields as before, the project of the snapshot carries that name, and
\* tasks and sections are unchanged.
C25_ProjectRenamed ==
  [][(last'.op = "listener" /\ last'.id = "renamed" /\ project # NullObject) =>
       /\ project' = [project EXCEPT !.name = IngestPool.renamed.event_data.name]
       /\ Snapshot(Store(project', sections', tasks')).project.name
            = IngestPool.renamed.event_data.name
       /\ tasks' = tasks
       /\ sections' = sections]_vars
(***************************************************************************)
(* Duplicate delivery                                                      *)
(***************************************************************************)
\* One event of every name processEvent dispatches on.
RecognizedEvents ==
  {Event(name, Task("a", Null, Null, 1, "x", "t1")) :
     name \in {"item:added", "item:uncompleted"}}
  \cup {Event(name, Task("a", Null, Null, 1, "y", "t2")) : name \in {"item:updated"}}
  \cup {Event(name, Task("b", Null, "s1", 1, "x", "t1")) :
          name \in {"item:completed", "item:deleted"}}
  \cup {Event(name, Section("s1", "S1b", 0, "t2")) :
          name \in {"section:added", "section:unarchived", "section:updated",
                    "section:archived", "section:deleted"}}
  \cup {IngestPool.renamed, IngestPool.deleted}

\* Every armed reorder timeout expires, in the order they were armed.
RECURSIVE Drain(_)
Drain(qq) ==
  IF qq.pendingEventTimers = <<>> THEN qq
  ELSE Drain(ProcessPending(qq, Head(qq.pendingEventTimers)))

\* C26: from every reachable state of the widget (buffers and timeouts
\* included) and for an event of every recognized name, handing the event to
\* EventQueue.process twice (at once, or again after the timeouts of the
\* first delivery have expired) and letting every reorder timeout expire
\* leaves the store as handing it over once and letting every timeout expire
\* does.
C26_DuplicateTolerated ==
  \A event \in RecognizedEvents :
    LET once == EventQueue_process(QueueNow, event, 1500)
        twice == EventQueue_process(once, event, 2500)
        later == EventQueue_process(Drain(once), event, 2500)
    IN /\ Drain(twice).tree.store = Drain(once).tree.store
       /\ Drain(later).tree.store = Drain(once).tree.store
(***************************************************************************)
(* First paint                                                             *)
(***************************************************************************)
\* C31: a bulk load (TaskTree.organize) called with no animation in flight
\* and no render executing returns with no render timeout armed, no snapshot
\* pending and the view showing the snapshot of the loaded store.
C31_BulkLoadRendersAtOnce ==
  [][(last'.op = "organize" /\ animationsInProgress = 0 /\ ~isRendering) =>
       /\ renderTimer' = "none"
       /\ pendingSnapshot' = NullObject
       /\ view'.dom = [data |-> Snapshot(Store(project', sections', tasks')),
                       ver |-> version']]_vars
(***************************************************************************)
(* Depth and parent linkage of a snapshot                                  *)
(***************************************************************************)
\* The nodes of a forest with the id of the node that holds each of them
\* (Null for the nodes of the top level).
RECURSIVE NodesUnder(_, _)
NodesUnder(nodes, parent) ==
  IF nodes = <<>> THEN {}
  ELSE {[node |-> Head(nodes), parent |-> parent]}
         \cup NodesUnder(Head(nodes).children, Head(nodes).id)
         \cup NodesUnder(Tail(nodes), parent)

\* The top-level lists of a snapshot: the tasks of every section and the
\* unsectioned tasks.
RECURSIVE SectionTasks(_)
SectionTasks(ss) ==
  IF ss = <<>> THEN <<>> ELSE Head(ss).tasks \o SectionTasks(Tail(ss))
SnapshotNodes(snap) ==
  NodesUnder(SectionTasks(snap.sections) \o snap.unsectioned, Null)

\* C32: in the snapshot of every reachable store, a node is at the top level
\* exactly when its task has no parent_id or a parent_id that is not stored,
\* and then has depth 0; every other node is a child of the node of the task
\* its parent_id names and has that node's depth plus 1.
C32_DepthAndParent ==
  LET nodes == SnapshotNodes(Snapshot(StoreNow))
  IN \A n \in nodes :
       /\ (n.parent = Null) <=> ~HasParentNode(tasks, n.node)
       /\ n.parent = Null => n.node.depth = 0
       /\ n.parent # Null =>
            /\ n.node.parent_id = n.parent
            /\ MapHas(tasks, n.parent)
            /\ \E p \in nodes : p.node.id = n.parent /\ n.node.depth = p.node.depth + 1

\* A snapshot with a root whose parent_id names a task that is not stored,
\* and a child of that root at depth 1.
C32_Witness ==
  LET nodes == SnapshotNodes(Snapshot(StoreNow))
  IN \E n, k \in nodes :
       /\ n.parent = Null /\ Truthy(n.node.parent_id)
       /\ k.parent = n.node.id /\ k.node.depth = 1
(***************************************************************************)
(* A pending snapshot has a timeout                                        *)
(***************************************************************************)
\* C35: in every state between two callbacks, a pending snapshot with no
\* animation in flight has a render timeout armed (the one timer handle of
\* the tree holds the debounce or the poll timeout, never both), and no
\* render is executing.
C35_PendingHasTimer ==
  /\ ~isRendering
  /\ renderTimer \in {"none", "debounce", "poll"}
  /\ (pendingSnapshot # NullObject /\ animationsInProgress = 0) => renderTimer # "none"
(***************************************************************************)
(* The animation counter                                                   *)
(***************************************************************************)
\* C36: after every step animationsInProgress is non-negative and equals the
\* number of exit-hook invocations whose completion callback has not been
\* called; a removeTask / removeSection call from outside a callback raises
\* it, by one, exactly when an element for its id is in the rendered view;
\* no other call from outside a callback raises it; and a completion
\* callback lowers it by one.
C36_CounterCountsRemovals ==
  [][/\ animationsInProgress' >= 0
     /\ animationsInProgress' = Len(removals')
     /\ last'.op = "removeTask" =>
          animationsInProgress' =
            animationsInProgress + (IF FindTaskElement(view, last'.id) THEN 1 ELSE 0)
     /\ last'.op = "removeSection" =>
          animationsInProgress' =
            animationsInProgress + (IF FindSectionElement(view, last'.id) THEN 1 ELSE 0)
     /\ last'.op \in {"organize", "addTask", "addSection", "updateSection", "updateTask"}
          => animationsInProgress' = animationsInProgress
     /\ last'.op = "done" => animationsInProgress' = animationsInProgress - 1]_vars

\* Two exit animations were started and the completion callback of one of
\* them has been called.
C36_Witness ==
  /\ last.op = "done"
  /\ animationsInProgress = 1
  /\ Len(removals) = 1
(***************************************************************************)
(* Buffers and reorder timeouts                                            *)
(***************************************************************************)
\* The expiry of the reorder timeout armed first, by its effect: timeouts
\* that are armed do expire.
ReorderTimeoutExpires ==
  /\ pendingEventTimers # <<>>
  /\ last' = Last("processPending", Head(pendingEventTimers), "ok", 0)
  /\ pendingEventTimers' = Tail(pendingEventTimers)

\* The event queue with reorder timeouts that expire.
SpecQueueLive ==
  /\ QueueInit
  /\ [][QueueNext]_vars
  /\ WF_<<last, pendingEventTimers>>(ReorderTimeoutExpires)

\* C37: in every state between two callbacks the entities with an armed
\* reorder timeout are the entities with a buffer, every buffer is non-empty
\* and no entity has two timeouts; and an entity with a buffer eventually
\* has none (its timeout expired and replayed the buffer, or clear()
\* discarded it).
C37_BufferHasTimer ==
  /\ [](/\ Range(pendingEventTimers) = Ids(pendingEvents)
        /\ \A id \in Ids(pendingEvents) : Buffered(id) # <<>>
        /\ \A i, j \in 1..Len(pendingEventTimers) :
             pendingEventTimers[i] = pendingEventTimers[j] => i = j)
  /\ \A id \in TaskIds \cup SectionIds :
       MapHas(pendingEvents, id) ~> ~MapHas(pendingEvents, id)

\* Two entities have a buffer and a timeout each, one of them with two
\* events.
C37_Witness ==
  /\ Len(pendingEventTimers) = 2
  /\ \E id \in Ids(pendingEvents) : Len(Buffered(id)) = 2
(***************************************************************************)
(* The removal animation of the widget: ProjectWidgetScript.handleRemove   *)
(***************************************************************************)
\* The closure state of one handleRemove(element, done) invocation after its
\* synchronous part: the three flags, whether the transitionend listener is
\* attached, the animation frames requested, the armed timeouts (300 ms and
\* removalFallbackMs), and the number of calls of done.
HandleRemove ==
  [finished |-> FALSE, collapseStarted |-> FALSE, heightDone |-> FALSE,
   listening |-> TRUE, frames |-> {"fade"}, timers |-> {"collapse", "fallback"},
   done |-> 0]

\* A variant of cleanup that neither tests finished nor removes the listener.
Cleanup_KeepsListening(c) == [c EXCEPT !.finished = TRUE, !.done = @ + 1]

\* cleanup()
Cleanup(c) ==
  IF c.finished THEN c
  ELSE [c EXCEPT !.finished = TRUE, !.listening = FALSE, !.done = @ + 1]

\* onTransitionEnd(event)
OnTransitionEnd(c, target, propertyName) ==
  IF target # "element" THEN c
  ELSE IF propertyName = "height" THEN Cleanup([c EXCEPT !.heightDone = TRUE])
  ELSE c

\* startCollapse()
StartCollapse(c) ==
  IF c.collapseStarted THEN c
  ELSE [c EXCEPT !.collapseStarted = TRUE, !.frames = @ \cup {"collapse"}]

\* The callback of the 300 ms timeout.
CollapseTimeout(c) == IF ~c.collapseStarted THEN StartCollapse(c) ELSE c

\* The callback of the removalFallbackMs timeout.
FallbackTimeout(c) ==
  IF c.finished THEN c
  ELSE LET c1 == IF ~c.collapseStarted THEN StartCollapse(c) ELSE c
       IN IF ~c1.heightDone THEN Cleanup(c1) ELSE c1

\* The variables the removal animation leaves alone.
engineVars == <<storeVars, treeVars, pendingEvents, pendingEventTimers, errors, handled,
                delivered, expiries, eventQueue, processingQueue, projectTitle, arrived,
                passed>>

\* The tree invokes the removal hook.
Widget_handleRemove(r) ==
  /\ removing[r] = NullObject
  /\ removing' = [removing EXCEPT ![r] = HandleRemove]
  /\ last' = Last("handleRemove", r, "ok", 0)
  /\ UNCHANGED <<engineVars, errorUi, app, client>>

\* A requested animation frame runs (its callback sets style or class only).
AnimationFrame(r, f) ==
  /\ removing[r] # NullObject
  /\ f \in removing[r].frames
  /\ removing' = [removing EXCEPT ![r].frames = @ \ {f}]
  /\ last' = Last("frame", r, f, 0)
  /\ UNCHANGED <<engineVars, errorUi, app, client>>

\* The 300 ms timeout expires.
CollapseTimerFires(r) ==
  /\ removing[r] # NullObject
  /\ "collapse" \in removing[r].timers
  /\ removing' = [removing EXCEPT ![r] = [CollapseTimeout(@) EXCEPT !.timers = @ \ {"collapse"}]]
  /\ last' = Last("collapseTimeout", r, "ok", 0)
  /\ UNCHANGED <<engineVars, errorUi, app, client>>

\* The removalFallbackMs timeout expires; it was armed after the 300 ms one
\* and runs longer, so it expires after it.
FallbackTimerFires(r) ==
  /\ removing[r] # NullObject
  /\ removing[r].timers = {"fallback"}
  /\ removing' = [removing EXCEPT ![r] = [FallbackTimeout(@) EXCEPT !.timers = {}]]
  /\ last' = Last("fallbackTimeout", r, "ok", 0)
  /\ UNCHANGED <<engineVars, errorUi, app, client>>

\* The browser dispatches a transitionend event to the listener: for the
\* element or for a descendant (the event bubbles), for any property.
TransitionEnd(r, target, propertyName) ==
  /\ removing[r] # NullObject
  /\ removing[r].listening
  /\ removing[r].done < 2
  /\ removing' = [removing EXCEPT ![r] = OnTransitionEnd(@, target, propertyName)]
  /\ last' = Last("transitionend", r, <<target, propertyName>>, 0)
  /\ UNCHANGED <<engineVars, errorUi, app, client>>

RemoveNext ==
  \/ \E r \in Invocations : Widget_handleRemove(r)
  \/ \E r \in Invocations, f \in {"fade", "collapse"} : AnimationFrame(r, f)
  \/ \E r \in Invocations : CollapseTimerFires(r)
  \/ \E r \in Invocations : FallbackTimerFires(r)
  \/ \E r \in Invocations, target \in {"element", "child"},
        propertyName \in {"height", "opacity"} : TransitionEnd(r, target, propertyName)

\* The removal animations, with timeouts that expire.
SpecRemove ==
  /\ StoreInit
  /\ [][RemoveNext]_vars
  /\ \A r \in Invocations : WF_vars(CollapseTimerFires(r))
  /\ \A r \in Invocations : WF_vars(FallbackTimerFires(r))

\* The number of done calls of an invocation (0 before it is made).
DoneCalls(rm, r) == IF rm[r] = NullObject THEN 0 ELSE rm[r].done

\* C33: for every handleRemove invocation, done is called at the first
\* transitionend of the element for the property height while it is
\* listening, and at the expiry of the fallback timeout when it has not been
\* called by then; it is called in no other step and never a second time;
\* and every invocation is followed by a state where done has been called
\* once.
C33_DoneOnce ==
  /\ [][\A r \in Invocations :
          /\ DoneCalls(removing', r) \in {DoneCalls(removing, r), DoneCalls(removing, r) + 1}
          /\ DoneCalls(removing', r) <= 1
          /\ (DoneCalls(removing', r) > DoneCalls(removing, r)) <=>
               /\ last'.id = r
               /\ DoneCalls(removing, r) = 0
               /\ \/ last'.op = "transitionend" /\ last'.outcome = <<"element", "height">>
                  \/ last'.op = "fallbackTimeout"]_vars
  /\ \A r \in Invocations :
       (removing[r] # NullObject) ~> (DoneCalls(removing, r) = 1)

\* One invocation was finished by its height transition and its fallback
\* timeout expired afterwards; the other was finished by its fallback
\* timeout.
C33_Witness ==
  /\ removing["r1"] # NullObject /\ removing["r2"] # NullObject
  /\ removing["r1"].heightDone /\ removing["r1"].timers = {} /\ removing["r1"].done = 1
  /\ ~removing["r2"].heightDone /\ removing["r2"].timers = {} /\ removing["r2"].done = 1
(***************************************************************************)
(* The error overlay of the widget: showError, the auto-hide timeout and   *)
(* synchronize                                                             *)
(***************************************************************************)
\* The number of EventQueue.onError calls a behaviour makes.
MaxFailures == 5

\* clearErrorAutoHide()
ClearErrorAutoHide(u) ==
  IF u.errorHideTimer # 0
  THEN [u EXCEPT !.timeouts = @ \ {u.errorHideTimer}, !.errorHideTimer = 0]
  ELSE u

\* scheduleErrorAutoHide(onDone): the timeout is identified by the number of
\* timeouts armed before it.
ScheduleErrorAutoHide(u) ==
  LET u1 == ClearErrorAutoHide(u)
  IN [u1 EXCEPT !.armed = @ + 1, !.timeouts = @ \cup {u1.armed + 1},
                !.errorHideTimer = u1.armed + 1]

\* showError(message, technical, onAutoHide)
ShowError(u, onAutoHide) ==
  LET u1 == [u EXCEPT !.hidden = FALSE]
  IN IF onAutoHide THEN ScheduleErrorAutoHide(u1) ELSE ClearErrorAutoHide(u1)

\* hideError()
HideError(u) == ClearErrorAutoHide([u EXCEPT !.hidden = TRUE])

\* synchronize() up to its await: the request is in flight.
Synchronize(u) == [u EXCEPT !.fetches = Append(@, u.reported)]

\* The onError callback the widget hands to its EventQueue.
OnError(u) == ShowError([u EXCEPT !.reported = @ + 1], TRUE)

\* The callback of the auto-hide timeout: hideError(); await onDone().
AutoHideCallback(u) ==
  LET u1 == Synchronize(HideError(u))
  IN [u1 EXCEPT !.served = u.reported]

\* The variables the overlay leaves alone.
overlayFrame == <<engineVars, removing, app, client>>

\* The EventQueue reports a failure.
ReportFailure ==
  /\ errorUi.reported < MaxFailures
  /\ errorUi' = OnError(errorUi)
  /\ last' = Last("onError", Null, "ok", 0)
  /\ UNCHANGED overlayFrame

\* An armed auto-hide timeout expires.
AutoHideTimerFires ==
  \E id \in errorUi.timeouts :
    /\ errorUi' = AutoHideCallback([errorUi EXCEPT !.timeouts = @ \ {id}])
    /\ last' = Last("autoHide", Null, "ok", 0)
    /\ UNCHANGED overlayFrame

\* The request of the oldest synchronize() in flight resolves: the .then
\* callback sets the title and calls taskTree.organize.
FetchResolves ==
  /\ errorUi.fetches # <<>>
  /\ errorUi' = [errorUi EXCEPT !.fetches = Tail(@),
                                !.loaded = IF Head(errorUi.fetches) > @
                                           THEN Head(errorUi.fetches) ELSE @]
  /\ last' = Last("synchronize", Null, "ok", 0)
  /\ UNCHANGED overlayFrame

\* The request rejects: the .catch callback calls showError without an
\* auto-hide callback.
FetchRejects ==
  /\ errorUi.fetches # <<>>
  /\ errorUi' = ShowError([errorUi EXCEPT !.fetches = Tail(@)], FALSE)
  /\ last' = Last("synchronize", Null, "threw", 0)
  /\ UNCHANGED overlayFrame

ErrorNext ==
  \/ ReportFailure
  \/ AutoHideTimerFires
  \/ FetchResolves
  \/ FetchRejects

\* The overlay, with timeouts that expire and requests that settle.
SpecError ==
  /\ StoreInit
  /\ [][ErrorNext]_vars
  /\ WF_vars(AutoHideTimerFires)
  /\ WF_vars(FetchResolves \/ FetchRejects)

\* C34: at most one auto-hide timeout is armed in any state, a failure
\* reported while one is armed leaves one (the new one), and every onError
\* call is eventually followed by a synchronize() issued by the expiry of an
\* auto-hide timeout armed at or after that call.
C34_FailureLeadsToLoad ==
  /\ [](Cardinality(errorUi.timeouts) <= 1)
  /\ \A n \in 1..(MaxFailures + 1) :
       (errorUi.reported = n) ~> (errorUi.served >= n)
(***************************************************************************)
(* Webhook registration: App.registerWebhookData                           *)
(***************************************************************************)
\* The devices (users) of the app; each calls registerWebhookData once, from
\* its onOAuth2Init.
DeviceIds == {"u1", "u2", "u3"}

\* registerWebhookData({ data }) up to the await of createWebhook: with
\* this.webhook null there is no await before it, and the webhook is created
\* with the ids known at that point.  The method assigns this.webhook
\* nowhere.
RegisterWebhookData(a, id) ==
  LET a1 == IF a.webhook # NullObject
            THEN [a EXCEPT !.unregistered = @ + 1,
                           !.webhooks = SelectSeq(@, LAMBDA w : w # a.webhook)]
            ELSE a
      ids == a1.ids \cup {id}
  IN [a1 EXCEPT !.ids = ids, !.creating = Append(@, [keys |-> ids])]

\* createWebhook resolves: the webhook is registered at the cloud and the
\* continuation attaches its message listener.
CreateWebhookResolves(a) ==
  [a EXCEPT !.creating = Tail(@), !.webhooks = Append(@, Head(a.creating))]

\* The cloud delivers a message of user id to every registered webhook keyed
\* by the id; each listener calls driver.onWebhookEvent once.
DeliverMessage(a, id) ==
  [a EXCEPT !.forwarded =
     Cardinality({i \in 1..Len(a.webhooks) : id \in a.webhooks[i].keys})]

\* The variables the app leaves alone.
appFrame == <<engineVars, removing, errorUi, client>>

\* A device calls registerWebhookData.
App_registerWebhookData(id) ==
  /\ id \notin app.ids
  /\ app' = RegisterWebhookData(app, id)
  /\ last' = Last("registerWebhookData", id, "ok", 0)
  /\ UNCHANGED appFrame

\* The oldest createWebhook call in flight resolves.
CreateResolves ==
  /\ app.creating # <<>>
  /\ app' = CreateWebhookResolves(app)
  /\ last' = Last("createWebhook", Null, "ok", 0)
  /\ UNCHANGED appFrame

\* Todoist sends a webhook message for a user some registered webhook is
\* keyed by.
WebhookMessage(id) ==
  /\ \E i \in 1..Len(app.webhooks) : id \in app.webhooks[i].keys
  /\ app' = DeliverMessage(app, id)
  /\ last' = Last("message", id, "ok", 0)
  /\ UNCHANGED appFrame

WebhookNext ==
  \/ \E id \in DeviceIds : App_registerWebhookData(id)
  \/ CreateResolves
  \/ \E id \in DeviceIds : WebhookMessage(id)

SpecWebhook == StoreInit /\ [][WebhookNext]_vars

\* C38: at most one webhook is registered in any state; once no createWebhook
\* call is in flight, the registered webhook is keyed by every device id
\* registered so far; and every message is forwarded to the driver exactly
\* once.
C38_OneWebhook ==
  /\ Len(app.webhooks) <= 1
  /\ (app.creating = <<>> /\ app.ids # {}) =>
       \E i \in 1..Len(app.webhooks) : app.webhooks[i].keys = app.ids
  /\ last.op = "message" => app.forwarded = 1
(***************************************************************************)
(* The project list cache: TodoistClient.getProjects                       *)
(***************************************************************************)
\* The number of getProjects calls a behaviour makes.
MaxCalls == 6

\* getProjects() up to its first await: a cached promise (in flight or
\* settled, fulfilled or rejected) is returned as it is; otherwise a request
\* is issued and its promise cached.
GetProjects(c) ==
  IF c._projects # "null"
  THEN [c EXCEPT !.calls = @ + 1, !.joined = @ + 1]
  ELSE [c EXCEPT !.calls = @ + 1, !._projects = "pending", !.requests = @ + 1]

\* The request is fulfilled: the call that issued it goes on after
\* `await this._projects`, clears this._timeout and arms the 60000 ms timeout.
RequestFulfilled(c) == [c EXCEPT !._projects = "fulfilled", !._timeout = TRUE]

\* The request is rejected: `await this._projects` throws in the call that
\* issued it, which ends there.
RequestRejected(c) == [c EXCEPT !._projects = "rejected"]

\* The callback of the 60000 ms timeout.
CacheTimeout(c) == [c EXCEPT !._projects = "null", !._timeout = FALSE]

\* The variables the client leaves alone.
clientFrame == <<engineVars, removing, errorUi, app>>

TodoistClient_getProjects ==
  /\ client.calls < MaxCalls
  /\ client' = GetProjects(client)
  /\ last' = Last("getProjects", Null, "ok", 0)
  /\ UNCHANGED clientFrame

RequestResolves ==
  /\ client._projects = "pending"
  /\ client' = RequestFulfilled(client)
  /\ last' = Last("request", Null, "ok", 0)
  /\ UNCHANGED clientFrame

RequestRejects ==
  /\ client._projects = "pending"
  /\ client' = RequestRejected(client)
  /\ last' = Last("request", Null, "threw", 0)
  /\ UNCHANGED clientFrame

CacheTimerFires ==
  /\ client._timeout
  /\ client' = CacheTimeout(client)
  /\ last' = Last("cacheTimeout", Null, "ok", 0)
  /\ UNCHANGED clientFrame

ClientNext ==
  \/ TodoistClient_getProjects
  \/ RequestResolves
  \/ RequestRejects
  \/ CacheTimerFires

\* The client, with requests that settle and a timeout that expires.
SpecClient ==
  /\ StoreInit
  /\ [][ClientNext]_vars
  /\ WF_vars(RequestResolves \/ RequestRejects)
  /\ WF_vars(CacheTimerFires)

\* C39: a call issues a request only when nothing is cached, so that the
\* calls made while a promise is cached share it; a settled promise in the
\* cache, fulfilled or rejected, has the 60000 ms timeout armed; and a cached
\* promise is eventually cleared.
C39_CacheInvalidated ==
  /\ [][client'.requests > client.requests => client._projects = "null"]_vars
  /\ [](client._projects \in {"fulfilled", "rejected"} => client._timeout)
  /\ (client._projects # "null") ~> (client._projects = "null")
====
